---- MODULE Spec2Model ----
(***************************************************************************)
(* Order / payment / user microservices: the order service's create, pay   *)
(* and cancel handlers over the orders table, the payment service's        *)
(* in-memory ledger (/pay, /refund), and the /health fan-out.               *)
(*                                                                         *)
(* Every `await` of a handler is a step boundary: the code between two     *)
(* awaits runs atomically on the single-threaded event loop, and handlers   *)
(* of different requests interleave at the awaits.                         *)
(***************************************************************************)
EXTENDS Integers, Sequences, FiniteSets, TLC

\* ------------------------------------------------------------------ bounds
MaxReqs == 3        \* HTTP requests received by the order service in one behaviour
MaxClock == 2       \* largest clock reading (Date.now() / NOW())
MaxDirect == 3      \* ledger entries (transactions and refunds) direct requests make
MaxHealth == 1      \* GET /health requests in one behaviour
MaxLedger == 1      \* ledger length up to which direct payments join the order service's
MaxSide == 2        \* order service requests made next to another service's
MaxConns == 2       \* connections open on a service's HTTP server at a time

\* ------------------------------------------------------------------ inputs
Reqs == 1..MaxReqs
OrderIds == 1..MaxReqs             \* SERIAL ids a behaviour can allocate
UsersDb == {1}                     \* users the user service knows
UserIdInputs == {0, 1, 2}          \* 0: field missing; 2: unknown user
ProductInputs == {0, 1}            \* 0: field missing
AmountInputs == {-1, 0, 2}         \* 0: field missing (or zero)
NULL == <<>>                       \* a missing transaction id

VARIABLES
  orders,        \* orders table: id -> row (status "none": id never allocated,
                 \*                          "cancelled": row deleted)
  nextId,        \* next value of the SERIAL id sequence
  transactions,  \* payment service: `transactions` array
  refunds,       \* payment service: `refunds` array
  now,           \* current clock reading
  req,           \* the order service's requests: handler position and locals
  direct,        \* the payment service's answer to the last direct request
  health,        \* GET /health requests: handler position and locals
  analytics,     \* the GET /analytics/orders request: handler position and locals
  users,         \* user service: the users (id -> name)
  ureq,          \* the user service's request: handler position and locals
  proc           \* a service process: start-up store check and shutdown

vars ==
  <<orders, nextId, transactions, refunds, now, req, direct, health, analytics,
    users, ureq, proc>>

\* ------------------------------------------------------------ error values
\* An axios / pg error as the catch blocks see it: error.response?.status and
\* error.code.
Err(status, code) == [status |-> status, code |-> code]

\* The `timeout` option of the outbound calls, in milliseconds.
UserTimeoutMs == 5000       \* GET user-service/users/:id
ChargeTimeoutMs == 10000    \* POST payment-service/pay
RefundTimeoutMs == 5000     \* POST payment-service/refund

\* The connection is refused, or the host name does not resolve.
ConnectErrs == {Err(0, "ECONNREFUSED"), Err(0, "ENOTFOUND")}

\* Mutant of Expired: the call carries no timeout.
Expired_Never(ms) == {}

\* axios aborts a call that has not been answered after `ms` milliseconds
\* (ms = 0: no timeout, the call waits for ever).
Expired(ms) == IF ms > 0 THEN {Err(0, "ECONNABORTED")} ELSE {}

\* Failures of an outbound HTTP call that never produce a response.
TransportErrs(ms) == ConnectErrs \cup Expired(ms)

\* The call went through and the remote handler answered 2xx.
Ok == Err(200, "")
\* Failures of a store query (pg errors carry the socket error code or an
\* SQLSTATE).
DbErrs == {Err(0, "ECONNREFUSED"), Err(0, "SQLSTATE")}

\* No payment data (payment_details IS NULL).
NoTxn == [transactionId |-> NULL, orderId |-> 0, amount |-> 0, user |-> 0]

NoOrder == [status |-> "none", user_id |-> 0, user_data |-> 0, product |-> 0,
            amount |-> 0, payment_details |-> NoTxn, paid_at |-> 0]

IdleReq == [kind |-> "none", pc |-> "idle", id |-> 0, userId |-> 0, amount |-> 0,
            product |-> 0, user |-> 0, limit |-> 0, filtered |-> 0, total |-> 0,
            order |-> NoOrder, payment |-> NoTxn, resp |-> 0, error |-> "",
            body |-> NoOrder,
            userCalls |-> 0, payCalls |-> 0, refundCalls |-> 0, writes |-> 0,
            refund |-> "", read |-> "", dbFailed |-> FALSE,
            cause |-> Err(0, ""), detail |-> 0]

\* A row is present in the table.
Present(o) == o.status \in {"pending", "paid"}

\* What a SELECT by id found: the row's status, or that there is no row.
Found(o) == IF Present(o) THEN o.status ELSE "absent"

\* Clock readings available to a step: time does not go backwards.
Readings == {t \in {now, now + 1} : t <= MaxClock}

\* ------------------------------------------------------ response translation
\* catch block of POST /orders
\* Mutant of CreateCatch: a timeout is reported as 'unavailable'.
CreateCatch_TimeoutAs503(e, userId) ==
  IF e.status = 404
  THEN [resp |-> 404, error |-> "User with ID ... not found", detail |-> userId]
  ELSE IF e.code \in {"ECONNREFUSED", "ENOTFOUND", "ECONNABORTED"}
       THEN [resp |-> 503, error |-> "User service unavailable", detail |-> 0]
  ELSE [resp |-> 500, error |-> "Failed to create order", detail |-> 0]

\* catch block of POST /orders; userId is req.body.userId, which the 404
\* message embeds (`detail`).
CreateCatch(e, userId) ==
  IF e.status = 404
  THEN [resp |-> 404, error |-> "User with ID ... not found", detail |-> userId]
  ELSE IF e.code \in {"ECONNREFUSED", "ENOTFOUND"}
       THEN [resp |-> 503, error |-> "User service unavailable", detail |-> 0]
  ELSE IF e.code = "ECONNABORTED"
       THEN [resp |-> 504, error |-> "User service request timed out", detail |-> 0]
  ELSE [resp |-> 500, error |-> "Failed to create order", detail |-> 0]

\* catch block of POST /orders/:id/pay; data is error.response.data.error,
\* which the 402 message embeds (`detail`).
PayCatch(e, data) ==
  IF e.status = 402 THEN [resp |-> 402, error |-> "Payment failed: ...", detail |-> data]
  ELSE IF e.code \in {"ECONNREFUSED", "ENOTFOUND"}
       THEN [resp |-> 503, error |-> "Payment service unavailable", detail |-> ""]
  ELSE IF e.code = "ECONNABORTED"
       THEN [resp |-> 504, error |-> "Payment service request timed out", detail |-> ""]
  ELSE [resp |-> 500, error |-> "Failed to process payment", detail |-> ""]

\* A handler answers: the response is sent, the request is finished and its
\* locals are gone.
Answer(r, status, error) ==
  [req[r] EXCEPT !.pc = "done", !.resp = status, !.error = error,
                 !.userId = 0, !.amount = 0, !.product = 0, !.user = 0,
                 !.order = NoOrder, !.payment = NoTxn]

\* A catch block answers with what it made of the error.
Reply(r, answer) ==
  [Answer(r, answer.resp, answer.error) EXCEPT !.detail = answer.detail]

\* -------------------------------------------------------- payment service
\* Mutant of PaymentPay: a payment whose buyer lookup failed is refused.
PaymentPay_LookupRequired(txs, orderId, amount, userId, userOk, shouldFail, t) ==
  IF orderId = 0 \/ amount <= 0
  THEN [status |-> 400, transactions |-> txs, data |-> NoTxn, error |-> "invalid"]
  ELSE IF shouldFail
  THEN [status |-> 402, transactions |-> txs, data |-> NoTxn,
        error |-> "Payment failed: Insufficient funds"]
  ELSE IF userId # 0 /\ ~userOk
  THEN [status |-> 503, transactions |-> txs, data |-> NoTxn,
        error |-> "User service unavailable"]
  ELSE LET paymentResult ==
             [transactionId |-> <<t, orderId>>, orderId |-> orderId,
              amount |-> amount, user |-> userId]
       IN [status |-> 200, transactions |-> Append(txs, paymentResult),
           data |-> paymentResult, error |-> ""]

\* POST /pay of the payment service, from the validation to the response:
\* the ledger after the request, the response status and the response body.
\* userOk: the best-effort user lookup succeeded; shouldFail: the simulated
\* decline (Math.random() < 0.05); t: the reading of Date.now().
PaymentPay(txs, orderId, amount, userId, userOk, shouldFail, t) ==
  IF orderId = 0 \/ amount = 0
  THEN [status |-> 400, transactions |-> txs, data |-> NoTxn,
        error |-> "Missing required fields: orderId and amount are required"]
  ELSE IF amount <= 0
  THEN [status |-> 400, transactions |-> txs, data |-> NoTxn,
        error |-> "Invalid amount: must be a positive number"]
  ELSE IF shouldFail
  THEN [status |-> 402, transactions |-> txs, data |-> NoTxn,
        error |-> "Payment failed: Insufficient funds"]
  ELSE LET paymentResult ==
             [transactionId |-> <<t, orderId>>, orderId |-> orderId,
              amount |-> amount,
              user |-> IF userId # 0 /\ userOk THEN userId ELSE 0]
       IN [status |-> 200, transactions |-> Append(txs, paymentResult),
           data |-> paymentResult, error |-> ""]

\* transactions.find(t => t.transactionId === transactionId): the index of the
\* first match, 0 when there is none.
FindTransaction(txs, transactionId) ==
  LET hits == {i \in 1..Len(txs) : txs[i].transactionId = transactionId}
  IN IF hits = {} THEN 0 ELSE CHOOSE i \in hits : \A j \in hits : i <= j

\* Mutant of PaymentRefund: a refund replaces the refund recorded earlier for
\* the same transaction.
PaymentRefund_Replaces(txs, rfs, transactionId, amount, t) ==
  IF transactionId = NULL \/ amount = 0
  THEN [status |-> 400, refunds |-> rfs]
  ELSE LET i == FindTransaction(txs, transactionId)
           refund == [refundId |-> <<t, transactionId>>,
                      originalTransactionId |-> transactionId,
                      amount |-> amount, status |-> "processed"]
           old == {k \in 1..Len(rfs) : rfs[k].originalTransactionId = transactionId}
       IN IF i = 0 THEN [status |-> 404, refunds |-> rfs]
          ELSE IF amount > txs[i].amount THEN [status |-> 400, refunds |-> rfs]
          ELSE [status |-> 200,
                refunds |-> IF old = {} THEN Append(rfs, refund)
                            ELSE [rfs EXCEPT ![CHOOSE k \in old : TRUE] = refund]]

\* Mutant of PaymentRefund: a refund for an unknown transaction is recorded.
PaymentRefund_NoLookup(txs, rfs, transactionId, amount, t) ==
  IF transactionId = NULL \/ amount = 0
  THEN [status |-> 400, refunds |-> rfs]
  ELSE [status |-> 200,
        refunds |-> Append(rfs,
           [refundId |-> <<t, transactionId>>,
            originalTransactionId |-> transactionId,
            amount |-> amount, status |-> "processed"])]

\* POST /refund of the payment service: the refunds after the request and the
\* response status.
PaymentRefund(txs, rfs, transactionId, amount, t) ==
  IF transactionId = NULL \/ amount = 0
  THEN [status |-> 400, refunds |-> rfs]
  ELSE LET i == FindTransaction(txs, transactionId)
       IN IF i = 0 THEN [status |-> 404, refunds |-> rfs]
          ELSE IF amount > txs[i].amount THEN [status |-> 400, refunds |-> rfs]
          ELSE [status |-> 200,
                refunds |-> Append(rfs,
                   [refundId |-> <<t, transactionId>>,
                    originalTransactionId |-> transactionId,
                    amount |-> amount, status |-> "processed"])]

\* POST /pay of the revision that keeps the ledger in Postgres: the transaction
\* is recorded by an INSERT, and the catch block answers 500 when the store
\* rejects it (inserted = FALSE). The in-memory push never fails.
StoredPay(txs, orderId, amount, userId, userOk, shouldFail, t, inserted) ==
  LET p == PaymentPay(txs, orderId, amount, userId, userOk, shouldFail, t)
  IN IF p.status = 200 /\ ~inserted
     THEN [status |-> 500, transactions |-> txs, data |-> NoTxn,
           error |-> "Payment processing failed"]
     ELSE p

\* POST /refund of the same revision: the transaction is looked up by a SELECT
\* and the refund recorded by an INSERT; the catch block answers 500 when the
\* store rejects either.
StoredRefund(txs, rfs, transactionId, amount, t, selected, inserted) ==
  LET p == PaymentRefund(txs, rfs, transactionId, amount, t)
  IN IF transactionId = NULL \/ amount = 0 THEN p
     ELSE IF ~selected \/ (p.status = 200 /\ ~inserted)
          THEN [status |-> 500, refunds |-> rfs]
     ELSE p

\* GET /transactions/:id/status: totalRefunded and netAmount of the first
\* transaction with that id.
SumAmounts(rfs, idx) ==
  LET RECURSIVE Sum(_)
      Sum(S) == IF S = {} THEN 0
                ELSE LET i == CHOOSE x \in S : TRUE
                     IN rfs[i].amount + Sum(S \ {i})
  IN Sum(idx)

TotalRefunded(rfs, transactionId) ==
  SumAmounts(rfs, {i \in 1..Len(rfs) : rfs[i].originalTransactionId = transactionId})

NetAmount(txs, rfs, transactionId) ==
  txs[FindTransaction(txs, transactionId)].amount - TotalRefunded(rfs, transactionId)

\* Nothing asked of the payment service directly yet.
NoDirect == [op |-> "", status |-> 0, id |-> NULL, net |-> 0, lookup |-> "",
             filtered |-> 0, store |-> ""]

HReqs == 1..MaxHealth
IdleHealth == [svc |-> "", pc |-> "idle", calls |-> <<>>, resp |-> 0,
               status |-> "", deps |-> <<>>, left |-> 0, dbFailed |-> FALSE]

\* The GET /analytics/orders request before it arrives. query: the store
\* query being awaited (1..4); rows: the user_id column the last query
\* returned; calls: the profile calls, in the order of the rows.
IdleAnalytics == [pc |-> "idle", query |-> 0, rows |-> <<>>, calls |-> <<>>,
                  resp |-> 0, userDemographics |-> <<>>, dbFailed |-> FALSE]

\* The user service's request before it arrives. rev: the revision of the
\* service that handles it; changes: the name in the body of a profile
\* update (0: none); row: the user the handler holds; cause: how the outbound
\* call settled.
IdleUser == [kind |-> "", rev |-> "", pc |-> "idle", id |-> 0, changes |-> 0,
             row |-> 0, resp |-> 0, body |-> 0, cause |-> Err(0, ""),
             dbFailed |-> FALSE]

\* The service process before `node index.js`. kind: the service; phase: off,
\* running, closing (server.close was called) or exited; code: the exit code;
\* by: the handler that ended the process; listening: the HTTP server accepts
\* connections; conns: its open connections; closed: the close callback ran;
\* poolEnded: pool.end() was called; timer: the forced-shutdown timer is
\* armed; initPc: where initDB stands; attempts: the iterations of its loop
\* that issued a query; step: the query of the iteration that is awaited.
NoProc == [kind |-> "", phase |-> "off", code |-> -1, by |-> "",
           listening |-> FALSE, conns |-> 0, closed |-> FALSE,
           poolEnded |-> FALSE, timer |-> FALSE, initPc |-> "none",
           attempts |-> 0, step |-> 0]

\* ----------------------------------------------------------- order service
Init ==
  /\ orders = [i \in OrderIds |-> NoOrder]
  /\ nextId = 1
  /\ transactions = <<>>
  /\ refunds = <<>>
  /\ now = 1
  /\ req = [r \in Reqs |-> IdleReq]
  /\ direct = NoDirect
  /\ health = [h \in HReqs |-> IdleHealth]
  /\ analytics = IdleAnalytics
  /\ users = [u \in UsersDb |-> 1]
  /\ ureq = IdleUser
  /\ proc = NoProc

\* Order ids a request can name: the allocated ones and one that is not
\* (ids never allocated are all alike).
IdInputs == {i \in OrderIds : i <= nextId}

\* Requests arrive one after the other; their handlers then overlap.
CanStart(r) ==
  req[r].pc = "idle" /\ (IF r = 1 THEN TRUE ELSE req[r - 1].pc # "idle")

Set(r, rec) == req' = [req EXCEPT ![r] = rec]

\* A store query of request r fails with error e, which the handler's catch
\* block translates with `catch`.
DbFail(r, answer) ==
  [Answer(r, answer.resp, answer.error) EXCEPT !.dbFailed = TRUE]

\* POST /orders, up to the user lookup: the required fields are validated
\* first.
StartCreate(r) ==
  /\ CanStart(r)
  /\ \E userId \in UserIdInputs, product \in ProductInputs, amount \in AmountInputs :
       IF userId = 0 \/ product = 0 \/ amount = 0
       THEN Set(r, [Answer(r, 400, "Missing required fields") EXCEPT !.kind = "create"])
       ELSE Set(r, [req[r] EXCEPT !.kind = "create", !.pc = "user",
                                  !.userId = userId, !.amount = amount,
                                  !.product = product, !.userCalls = 1])
  /\ UNCHANGED <<orders, nextId, transactions, refunds, now, direct, health, analytics,
               users, ureq, proc>>

\* Outcomes of GET user-service/users/:id for user id u.
UserLookup(u) ==
  TransportErrs(UserTimeoutMs) \cup {Err(500, "ERR_BAD_RESPONSE")}
    \cup (IF u \in UsersDb THEN {Ok} ELSE {Err(404, "ERR_BAD_REQUEST")})

\* The user lookup settles with e: on success the INSERT is issued, on
\* failure the catch block answers.
UserSettles(r, e) ==
  /\ req[r].kind = "create" /\ req[r].pc = "user"
  /\ IF e = Ok
     THEN Set(r, [req[r] EXCEPT !.pc = "insert", !.cause = e,
                                !.user = users[req[r].userId]])
     ELSE Set(r, [Reply(r, CreateCatch(e, req[r].userId)) EXCEPT !.cause = e])
  /\ UNCHANGED <<orders, nextId, transactions, refunds, now, direct, health, analytics,
               users, ureq, proc>>

\* The user lookup is aborted by its timeout.
UserExpires(r) == \E e \in Expired(UserTimeoutMs) : UserSettles(r, e)

\* The user lookup settles.
CreateUser(r) == \E e \in UserLookup(req[r].userId) : UserSettles(r, e)

\* The row INSERT INTO orders ... RETURNING * stores for the request: the
\* user as the user service returned it (user_data), the product and the
\* amount of the body.
NewOrder(rq) ==
  [status |-> "pending", user_id |-> rq.userId, user_data |-> rq.user,
   product |-> rq.product, amount |-> rq.amount,
   payment_details |-> NoTxn, paid_at |-> 0]

\* Mutant of CreateInsert: the row is stored although the handler fails.
CreateInsert_StoresThenFails(r) ==
  /\ req[r].kind = "create" /\ req[r].pc = "insert"
  /\ orders' = [orders EXCEPT ![nextId] = NewOrder(req[r])]
  /\ nextId' = nextId + 1
  /\ \/ Set(r, [Answer(r, 201, "") EXCEPT !.id = nextId, !.writes = 1,
                                          !.body = orders'[nextId]])
     \/ \E e \in DbErrs : Set(r, DbFail(r, CreateCatch(e, req[r].userId)))
  /\ UNCHANGED <<transactions, refunds, now, direct, health, analytics,
               users, ureq, proc>>

\* The INSERT settles: 201 with the new row, or the catch block.
CreateInsert(r) ==
  /\ req[r].kind = "create" /\ req[r].pc = "insert"
  /\ \/ /\ orders' = [orders EXCEPT ![nextId] = NewOrder(req[r])]
        /\ nextId' = nextId + 1
        /\ Set(r, [Answer(r, 201, "") EXCEPT !.id = nextId, !.writes = 1,
                                             !.body = orders'[nextId]])
     \/ /\ \E e \in DbErrs : Set(r, DbFail(r, CreateCatch(e, req[r].userId)))
        /\ UNCHANGED <<orders, nextId>>
  /\ UNCHANGED <<transactions, refunds, now, direct, health, analytics,
               users, ureq, proc>>

\* POST /orders/:id/pay, up to the SELECT of the order.
StartPay(r) ==
  /\ CanStart(r)
  /\ \E id \in IdInputs, numeric \in BOOLEAN :
       IF ~numeric
       THEN Set(r, [Answer(r, 400, "Invalid order ID") EXCEPT !.kind = "pay"])
       ELSE Set(r, [req[r] EXCEPT !.kind = "pay", !.pc = "select", !.id = id])
  /\ UNCHANGED <<orders, nextId, transactions, refunds, now, direct, health, analytics,
               users, ureq, proc>>

\* Mutant of PayCheck: the 'already paid' test is missing.
PayCheck_NoPaidTest(o) ==
  IF ~Present(o) THEN [resp |-> 404, error |-> "Order not found"]
  ELSE [resp |-> 0, error |-> ""]

\* Mutant of PayCheck: the 'no such row' test is missing.
PayCheck_NoRowTest(o) ==
  IF o.status = "paid" THEN [resp |-> 400, error |-> "Order already paid"]
  ELSE [resp |-> 0, error |-> ""]

\* The status check of the pay handler on the row it read.
PayCheck(o) ==
  IF ~Present(o) THEN [resp |-> 404, error |-> "Order not found"]
  ELSE IF o.status = "paid" THEN [resp |-> 400, error |-> "Order already paid"]
  ELSE [resp |-> 0, error |-> ""]

\* The SELECT settles: 404, 400, or the charge is posted to the payment
\* service.
PaySelect(r) ==
  /\ req[r].kind = "pay" /\ req[r].pc = "select"
  /\ \/ LET o == orders[req[r].id]
            c == PayCheck(o)
        IN IF c.resp # 0
           THEN Set(r, [Answer(r, c.resp, c.error) EXCEPT !.read = Found(o)])
           ELSE Set(r, [req[r] EXCEPT !.pc = "charge", !.order = o,
                                      !.read = Found(o), !.payCalls = @ + 1])
     \/ \E e \in DbErrs : Set(r, DbFail(r, PayCatch(e, "")))
  /\ UNCHANGED <<orders, nextId, transactions, refunds, now, direct, health, analytics,
               users, ureq, proc>>

\* Failures of the charge in which the payment service's /pay handler never
\* runs: no connection, no answer in time, or an answer that is not the
\* handler's (a gateway's 5xx, a 404 for a route that is not mounted).
ChargeFailures ==
  TransportErrs(ChargeTimeoutMs)
    \cup {Err(500, "ERR_BAD_RESPONSE"), Err(404, "ERR_BAD_REQUEST")}

\* The charge fails with e before the payment service handles it.
ChargeFails(r, e) ==
  /\ req[r].kind = "pay" /\ req[r].pc = "charge"
  /\ Set(r, [Reply(r, PayCatch(e, "")) EXCEPT !.cause = e])
  /\ UNCHANGED <<orders, nextId, transactions, refunds, now, direct, health, analytics,
               users, ureq, proc>>

\* The charge is aborted by its timeout.
ChargeExpires(r) == \E e \in Expired(ChargeTimeoutMs) : ChargeFails(r, e)

\* The payment service handles the charge and answers, or handles it while
\* the caller's timeout expires first (late).
ChargeHandled(r) ==
  /\ req[r].kind = "pay" /\ req[r].pc = "charge"
  /\ \E userOk \in BOOLEAN, shouldFail \in BOOLEAN, t \in Readings,
        late \in (IF Expired(ChargeTimeoutMs) = {} THEN {FALSE} ELSE BOOLEAN) :
       LET p == PaymentPay(transactions, req[r].id, req[r].order.amount,
                           req[r].order.user_id, userOk, shouldFail, t)
           e == IF late THEN Err(0, "ECONNABORTED")
                ELSE IF p.status = 200 THEN Ok
                ELSE Err(p.status, "ERR_BAD_REQUEST")
       IN /\ transactions' = p.transactions
          /\ now' = t
          /\ IF e = Ok
             THEN Set(r, [req[r] EXCEPT !.pc = "update", !.payment = p.data,
                                        !.cause = e])
             ELSE Set(r, [Reply(r, PayCatch(e, IF late THEN "" ELSE p.error))
                            EXCEPT !.cause = e])
  /\ UNCHANGED <<orders, nextId, refunds, direct, health, analytics,
               users, ureq, proc>>

\* The charge settles.
PayCharge(r) == (\E e \in ChargeFailures : ChargeFails(r, e)) \/ ChargeHandled(r)

\* UPDATE orders SET status = 'paid', payment_details = $2, paid_at = NOW()
\* WHERE id = $1: the row after the update.
MarkPaid(o, payment, t) ==
  [o EXCEPT !.status = "paid", !.payment_details = payment, !.paid_at = t]

\* Mutant of PayUpdate: the UPDATE stores the paid row whether or not the
\* order still exists.
PayUpdate_Upsert(r) ==
  /\ req[r].kind = "pay" /\ req[r].pc = "update"
  /\ LET id == req[r].id
         row == MarkPaid(req[r].order, req[r].payment, now)
     IN \/ /\ orders' = [orders EXCEPT ![id] = row]
           /\ Set(r, [Answer(r, 200, "") EXCEPT !.body = row, !.writes = @ + 1])
        \/ /\ \E e \in DbErrs : Set(r, DbFail(r, PayCatch(e, "")))
           /\ UNCHANGED orders
  /\ UNCHANGED <<nextId, transactions, refunds, now, direct, health, analytics,
               users, ureq, proc>>

\* Mutant of PayUpdate: the row is marked paid although the handler fails.
PayUpdate_WritesThenFails(r) ==
  /\ req[r].kind = "pay" /\ req[r].pc = "update"
  /\ LET id == req[r].id
         hit == Present(orders[id])
         row == MarkPaid(orders[id], req[r].payment, now)
     IN /\ orders' = IF hit THEN [orders EXCEPT ![id] = row] ELSE orders
        /\ \/ Set(r, [Answer(r, 200, "") EXCEPT
                        !.body = IF hit THEN row ELSE NoOrder,
                        !.writes = IF hit THEN @ + 1 ELSE @])
           \/ \E e \in DbErrs : Set(r, DbFail(r, PayCatch(e, "")))
  /\ UNCHANGED <<nextId, transactions, refunds, now, direct, health, analytics,
               users, ureq, proc>>

\* The UPDATE settles: 200 with the returned row (none when the row is gone),
\* or the catch block.
PayUpdate(r) ==
  /\ req[r].kind = "pay" /\ req[r].pc = "update"
  /\ \/ LET id == req[r].id
            hit == Present(orders[id])
            row == MarkPaid(orders[id], req[r].payment, now)
        IN /\ orders' = IF hit THEN [orders EXCEPT ![id] = row] ELSE orders
           /\ Set(r, [Answer(r, 200, "") EXCEPT
                        !.body = IF hit THEN row ELSE NoOrder,
                        !.writes = IF hit THEN @ + 1 ELSE @])
     \/ /\ \E e \in DbErrs : Set(r, DbFail(r, PayCatch(e, "")))
        /\ UNCHANGED orders
  /\ UNCHANGED <<nextId, transactions, refunds, now, direct, health, analytics,
               users, ureq, proc>>

\* DELETE /orders/:id, up to the SELECT of the order.
StartCancel(r) ==
  /\ CanStart(r)
  /\ \E id \in IdInputs, numeric \in BOOLEAN :
       IF ~numeric
       THEN Set(r, [Answer(r, 400, "Invalid order ID") EXCEPT !.kind = "cancel"])
       ELSE Set(r, [req[r] EXCEPT !.kind = "cancel", !.pc = "select", !.id = id])
  /\ UNCHANGED <<orders, nextId, transactions, refunds, now, direct, health, analytics,
               users, ureq, proc>>

\* The cancel handler refunds an order it read as paid with payment details.
NeedsRefund(o) == o.status = "paid" /\ o.payment_details # NoTxn

\* The SELECT settles: 404, or the refund is posted for a paid order, or the
\* DELETE is issued. JSON.parse(order.payment_details) runs inside the inner
\* try: when the driver hands the JSONB column over as an object it throws, the
\* inner catch logs it and no refund request is sent.
CancelSelect(r) ==
  /\ req[r].kind = "cancel" /\ req[r].pc = "select"
  /\ \/ LET o == orders[req[r].id]
        IN IF ~Present(o)
           THEN Set(r, [Answer(r, 404, "Order not found") EXCEPT !.read = Found(o)])
           ELSE IF NeedsRefund(o)
           THEN \E asText \in BOOLEAN :
                  IF asText
                  THEN Set(r, [req[r] EXCEPT !.pc = "refund", !.order = o,
                                             !.read = Found(o),
                                             !.refundCalls = @ + 1])
                  ELSE Set(r, [req[r] EXCEPT !.pc = "delete", !.order = o,
                                             !.read = Found(o),
                                             !.refund = "parse_error"])
           ELSE Set(r, [req[r] EXCEPT !.pc = "delete", !.order = o,
                                      !.read = Found(o)])
     \/ \E e \in DbErrs :
          Set(r, DbFail(r, [resp |-> 500, error |-> "Internal server error"]))
  /\ UNCHANGED <<orders, nextId, transactions, refunds, now, direct, health, analytics,
               users, ureq, proc>>

\* Mutant of AfterRefund: a failed refund call ends the cancellation.
AfterRefund_Blocking(rq, outcome) ==
  IF outcome = "ok" THEN [rq EXCEPT !.pc = "delete", !.refund = outcome]
  ELSE [rq EXCEPT !.pc = "done", !.resp = 503, !.refund = outcome,
                  !.error = "Payment service unavailable"]

\* What the cancel handler does once the refund call has settled with
\* `outcome`: the inner catch swallows every failure and the DELETE is issued.
AfterRefund(rq, outcome) == [rq EXCEPT !.pc = "delete", !.refund = outcome]

\* The compensating refund settles.
CancelRefund(r) ==
  /\ req[r].kind = "cancel" /\ req[r].pc = "refund"
  /\ \/ /\ \E e \in TransportErrs(RefundTimeoutMs) \cup {Err(500, "ERR_BAD_RESPONSE")} :
             Set(r, AfterRefund(req[r], e.code))
        /\ UNCHANGED <<refunds, now>>
     \/ \E t \in Readings, late \in BOOLEAN :
          LET p == PaymentRefund(transactions, refunds,
                                 req[r].order.payment_details.transactionId,
                                 req[r].order.amount, t)
          IN /\ refunds' = p.refunds
             /\ now' = t
             /\ Set(r, AfterRefund(req[r],
                  IF late THEN "ECONNABORTED"
                  ELSE IF p.status = 200 THEN "ok" ELSE "ERR_BAD_REQUEST"))
  /\ UNCHANGED <<orders, nextId, transactions, direct, health, analytics,
               users, ureq, proc>>

\* DELETE FROM orders WHERE id = $1.
DeleteOrder(os, id) ==
  IF Present(os[id]) THEN [os EXCEPT ![id] = [NoOrder EXCEPT !.status = "cancelled"]]
  ELSE os

\* The DELETE settles: 200 with the order as it was read, or 500.
CancelDelete(r) ==
  /\ req[r].kind = "cancel" /\ req[r].pc = "delete"
  /\ \/ /\ orders' = DeleteOrder(orders, req[r].id)
        /\ Set(r, [Answer(r, 200, "Order cancelled successfully") EXCEPT
                     !.body = req[r].order,
                     !.writes = IF Present(orders[req[r].id]) THEN @ + 1 ELSE @])
     \/ /\ \E e \in DbErrs :
             Set(r, DbFail(r, [resp |-> 500, error |-> "Internal server error"]))
        /\ UNCHANGED orders
  /\ UNCHANGED <<nextId, transactions, refunds, now, direct, health, analytics,
               users, ureq, proc>>

\* GET /orders/:id, up to the SELECT of the order.
StartGet(r) ==
  /\ CanStart(r)
  /\ \E id \in IdInputs, numeric \in BOOLEAN :
       IF ~numeric
       THEN Set(r, [Answer(r, 400, "Invalid order ID") EXCEPT !.kind = "get"])
       ELSE Set(r, [req[r] EXCEPT !.kind = "get", !.pc = "select", !.id = id])
  /\ UNCHANGED <<orders, nextId, transactions, refunds, now, direct, health, analytics,
               users, ureq, proc>>

\* The SELECT settles: 404, or 200 with the row, or 500.
GetSelect(r) ==
  /\ req[r].kind = "get" /\ req[r].pc = "select"
  /\ \/ LET o == orders[req[r].id]
        IN IF ~Present(o)
           THEN Set(r, [Answer(r, 404, "Order not found") EXCEPT !.read = Found(o)])
           ELSE Set(r, [Answer(r, 200, "") EXCEPT !.read = Found(o), !.body = o])
     \/ \E e \in DbErrs :
          Set(r, DbFail(r, [resp |-> 500, error |-> "Internal server error"]))
  /\ UNCHANGED <<orders, nextId, transactions, refunds, now, direct, health, analytics,
               users, ureq, proc>>

Next ==
  \E r \in Reqs :
    \/ StartCreate(r) \/ CreateUser(r) \/ CreateInsert(r)
    \/ StartPay(r) \/ PaySelect(r) \/ PayCharge(r) \/ PayUpdate(r)
    \/ StartCancel(r) \/ CancelSelect(r) \/ CancelRefund(r) \/ CancelDelete(r)
    \/ StartGet(r) \/ GetSelect(r)

Spec == Init /\ [][Next]_vars

\* The same handlers with what the runtime guarantees: a timer that has been
\* armed fires (the timeouts of the outbound calls), and a query the store
\* has received is answered. Nothing is assumed of the user service or the
\* payment service: they may never reply.
Fairness ==
  \A r \in Reqs :
    /\ WF_vars(UserExpires(r)) /\ WF_vars(ChargeExpires(r))
    /\ WF_vars(CreateInsert(r)) /\ WF_vars(PaySelect(r)) /\ WF_vars(PayUpdate(r))

SpecLive == Spec /\ Fairness

\* ------------------------------------------- payment service, called directly
\* Request fields a client can send to the payment service.
DirectOrderIds == {0, 1}           \* 0: field missing
DirectAmounts == {-1, 0, 2, 3}     \* 0: field missing (or zero)
DirectUserIds == {0, 1}            \* 0: field missing
DirectTxnIds ==
  {NULL} \cup {<<t, o>> : t \in 1..MaxClock, o \in DirectOrderIds \ {0}}

\* The ledger stays within the bound of the model.
WithinDirect(txs, rfs) == Len(txs) + Len(rfs) <= MaxDirect

\* The outcome of the buyer lookup of a /pay request: none is made without a
\* userId.
Lookup(userId, userOk) ==
  IF userId = 0 THEN "none" ELSE IF userOk THEN "ok" ELSE "failed"

\* POST /pay sent to the payment service by any client. The clock is read
\* (Date.now()) only when the transaction is built.
DirectPay ==
  /\ \E orderId \in DirectOrderIds, amount \in DirectAmounts, shouldFail \in BOOLEAN,
        userId \in DirectUserIds, inserted \in BOOLEAN :
     \E userOk \in (IF userId = 0 THEN {FALSE} ELSE BOOLEAN) :
       LET try == StoredPay(transactions, orderId, amount, userId, userOk,
                            shouldFail, now, inserted)
           answer == [NoDirect EXCEPT !.op = "pay", !.status = try.status]
       IN IF try.status # 200
          THEN /\ direct' = [answer EXCEPT
                               !.lookup = IF try.status = 400 THEN ""
                                          ELSE Lookup(userId, userOk),
                               !.store = IF try.status = 500 THEN "failed" ELSE ""]
               /\ UNCHANGED <<transactions, now>>
          ELSE \E t \in Readings :
                 LET p == StoredPay(transactions, orderId, amount, userId,
                                    userOk, shouldFail, t, inserted)
                 IN /\ WithinDirect(p.transactions, refunds)
                    /\ transactions' = p.transactions
                    /\ now' = t
                    /\ direct' = [answer EXCEPT !.status = p.status,
                                                !.id = p.data.transactionId,
                                                !.lookup = Lookup(userId, userOk),
                                                !.store = "ok"]
  /\ UNCHANGED <<orders, nextId, refunds, req, health, analytics,
               users, ureq, proc>>

\* POST /refund sent to the payment service by any client.
DirectRefund ==
  /\ \E transactionId \in DirectTxnIds, amount \in DirectAmounts \ {-1},
        selected \in BOOLEAN, inserted \in BOOLEAN :
       LET try == StoredRefund(transactions, refunds, transactionId, amount, now,
                               selected, inserted)
           answer == [NoDirect EXCEPT !.op = "refund", !.status = try.status,
                                      !.id = transactionId]
       IN IF try.status # 200
          THEN /\ direct' = [answer EXCEPT
                               !.store = IF try.status = 500 THEN "failed" ELSE ""]
               /\ UNCHANGED <<refunds, now>>
          ELSE \E t \in Readings :
                 LET p == StoredRefund(transactions, refunds, transactionId,
                                       amount, t, selected, inserted)
                 IN /\ WithinDirect(transactions, p.refunds)
                    /\ refunds' = p.refunds
                    /\ now' = t
                    /\ direct' = [answer EXCEPT !.status = p.status,
                                                !.store = "ok"]
  /\ UNCHANGED <<orders, nextId, transactions, req, health, analytics,
               users, ureq, proc>>

\* GET /transactions/:id/status.
DirectStatus ==
  /\ \E transactionId \in DirectTxnIds \ {NULL} :
       direct' = IF FindTransaction(transactions, transactionId) = 0
                 THEN [NoDirect EXCEPT !.op = "status", !.status = 404,
                                       !.id = transactionId]
                 ELSE [NoDirect EXCEPT !.op = "status", !.status = 200,
                                       !.id = transactionId,
                                       !.net = NetAmount(transactions, refunds,
                                                         transactionId)]
  /\ UNCHANGED <<orders, nextId, transactions, refunds, now, req, health, analytics,
               users, ureq, proc>>

\* slice(0, limit) of a filtered copy: the number of entries returned
\* (limit 0: no limit given).
Limited(n, limit) == IF limit > 0 /\ limit < n THEN limit ELSE n

\* GET /payments: a copy of the transactions, filtered by orderId and userId
\* (0: filter not given; the status filter keeps every transaction, all are
\* 'paid') and cut to `limit`.
DirectPayments ==
  /\ \E orderId \in DirectOrderIds, userId \in DirectUserIds, limit \in {0, 1} :
       LET hits == {i \in 1..Len(transactions) :
                      /\ orderId # 0 => transactions[i].orderId = orderId
                      /\ userId # 0 => transactions[i].user = userId}
       IN direct' = [NoDirect EXCEPT !.op = "payments", !.status = 200,
                       !.filtered = Limited(Cardinality(hits), limit)]
  /\ UNCHANGED <<orders, nextId, transactions, refunds, now, req, health, analytics,
               users, ureq, proc>>

\* GET /refunds: a copy of the refunds, filtered by transactionId and cut to
\* `limit`.
DirectRefunds ==
  /\ \E transactionId \in DirectTxnIds, limit \in {0, 1} :
       LET hits == {i \in 1..Len(refunds) :
                      transactionId # NULL
                        => refunds[i].originalTransactionId = transactionId}
       IN direct' = [NoDirect EXCEPT !.op = "refunds", !.status = 200,
                       !.filtered = Limited(Cardinality(hits), limit)]
  /\ UNCHANGED <<orders, nextId, transactions, refunds, now, req, health, analytics,
               users, ureq, proc>>

NextPayment ==
  DirectPay \/ DirectRefund \/ DirectStatus \/ DirectPayments \/ DirectRefunds

SpecPayment == Init /\ [][NextPayment]_vars

\* The order service's create and pay requests next to clients that post to
\* the payment service's /pay themselves, while the ledger is short.
LedgerPay == Len(transactions) < MaxLedger /\ DirectPay

NextLedger ==
  \/ \E r \in 1..MaxSide :
       \/ StartCreate(r) \/ CreateUser(r) \/ CreateInsert(r)
       \/ StartPay(r) \/ PaySelect(r) \/ PayCharge(r) \/ PayUpdate(r)
  \/ LedgerPay

SpecLedger == Init /\ [][NextLedger]_vars

\* ------------------------------------------------------------- user service
\* The revisions of the user service: users in an array ("memory"), users in
\* Postgres with the profile webhook ("pg"), users in Postgres without it
\* ("plain").
UserRevisions == {"memory", "pg", "plain"}
HasUsersTable(rev) == rev # "memory"

\* Request fields a client can send to the user service.
UserIds == UserIdInputs \ {0}
NameInputs == {0, 1, 2}            \* 0: the body carries no name

\* The `timeout` option of the user service's outbound calls, in milliseconds.
WebhookTimeoutMs == 3000    \* POST order-service/webhooks/user-updated
ReadTimeoutMs == 5000       \* GET order-service/orders, payment-service/payments

\* How the outbound calls of the user service can settle.
WebhookOutcomes ==
  TransportErrs(WebhookTimeoutMs) \cup {Ok, Err(500, "ERR_BAD_RESPONSE")}
DownstreamOutcomes ==
  TransportErrs(ReadTimeoutMs) \cup {Ok, Err(500, "ERR_BAD_RESPONSE")}

\* Whether the order service handled a notification that settled with e: a
\* refused connection never reached it, a call that timed out may have.
Delivered(e) ==
  IF e \in ConnectErrs THEN {FALSE}
  ELSE IF e.code = "ECONNABORTED" THEN BOOLEAN
  ELSE {TRUE}

\* The user service takes one request after the other.
UCanStart == ureq.pc \in {"idle", "done"}

\* The name after an update: COALESCE($2, name) / if (updates.name) ....
Applied(name, changes) == IF changes # 0 THEN changes ELSE name

UAnswer(rq, status) == [rq EXCEPT !.pc = "done", !.resp = status]

\* A store query of the user service's handler is rejected.
UDbFail(rq, status) == [UAnswer(rq, status) EXCEPT !.dbFailed = TRUE]

\* Mutant of WebhookUserUpdated: the handler refreshes the user's orders.
WebhookUserUpdated_Refreshes(os, userId, changes) ==
  [i \in DOMAIN os |->
     IF Present(os[i]) /\ os[i].user_id = userId
     THEN [os[i] EXCEPT !.user_data = Applied(@, changes)]
     ELSE os[i]]

\* POST /webhooks/user-updated of the order service: the orders table after
\* the handler (it logs the notification and answers 200).
WebhookUserUpdated(os, userId, changes) == os

\* PUT /users/:id/profile, up to the first await. The in-memory revision
\* updates the user and pushes the activity at once and then notifies the
\* order service; the others issue the UPDATE.
StartProfile ==
  /\ UCanStart
  /\ \E rev \in UserRevisions, id \in UserIds, changes \in NameInputs :
       LET rq == [IdleUser EXCEPT !.kind = "profile", !.rev = rev, !.id = id,
                                  !.changes = changes]
       IN IF HasUsersTable(rev)
          THEN ureq' = [rq EXCEPT !.pc = "update"] /\ UNCHANGED users
          ELSE IF id \notin DOMAIN users
          THEN ureq' = UAnswer(rq, 404) /\ UNCHANGED users
          ELSE /\ users' = [users EXCEPT ![id] = Applied(@, changes)]
               /\ ureq' = [rq EXCEPT !.pc = "webhook", !.row = users'[id]]
  /\ UNCHANGED <<orders, nextId, transactions, refunds, now, req, direct, health,
                 analytics, proc>>

\* UPDATE users ... RETURNING * settles: 500, 404 when no row matched, or the
\* activity INSERT is issued.
ProfileUpdate ==
  /\ ureq.kind = "profile" /\ ureq.pc = "update"
  /\ \/ ureq' = UDbFail(ureq, 500) /\ UNCHANGED users
     \/ IF ureq.id \notin DOMAIN users
        THEN ureq' = UAnswer(ureq, 404) /\ UNCHANGED users
        ELSE /\ users' = [users EXCEPT ![ureq.id] = Applied(@, ureq.changes)]
             /\ ureq' = [ureq EXCEPT !.pc = "activity", !.row = users'[ureq.id]]
  /\ UNCHANGED <<orders, nextId, transactions, refunds, now, req, direct, health,
                 analytics, proc>>

\* INSERT INTO user_activity settles: 500, or the order service is notified
\* (the revision without the webhook answers).
ProfileActivity ==
  /\ ureq.kind = "profile" /\ ureq.pc = "activity"
  /\ \/ ureq' = UDbFail(ureq, 500)
     \/ ureq' = IF ureq.rev = "plain"
                THEN [UAnswer(ureq, 200) EXCEPT !.body = ureq.row]
                ELSE [ureq EXCEPT !.pc = "webhook"]
  /\ UNCHANGED <<orders, nextId, transactions, refunds, now, req, direct, health,
                 analytics, users, proc>>

\* The body of the 200: the row the UPDATE returned, or the user object of
\* the array.
ProfileBody(rq) == IF HasUsersTable(rq.rev) THEN rq.row ELSE users[rq.id]

\* Mutant of ProfileWebhook: a failed notification undoes nothing but is
\* answered 503.
ProfileWebhook_Required ==
  /\ ureq.kind = "profile" /\ ureq.pc = "webhook"
  /\ \E e \in WebhookOutcomes, delivered \in BOOLEAN :
       /\ delivered \in Delivered(e)
       /\ orders' = IF delivered
                    THEN WebhookUserUpdated(orders, ureq.id, ureq.changes)
                    ELSE orders
       /\ ureq' = IF e = Ok
                  THEN [UAnswer(ureq, 200) EXCEPT !.body = ProfileBody(ureq),
                                                  !.cause = e]
                  ELSE [UAnswer(ureq, 503) EXCEPT !.cause = e]
  /\ UNCHANGED <<nextId, transactions, refunds, now, req, direct, health,
                 analytics, users, proc>>

\* The notification settles, in its own try/catch: the handler answers 200
\* with the user whatever the outcome.
ProfileWebhook ==
  /\ ureq.kind = "profile" /\ ureq.pc = "webhook"
  /\ \E e \in WebhookOutcomes, delivered \in BOOLEAN :
       /\ delivered \in Delivered(e)
       /\ orders' = IF delivered
                    THEN WebhookUserUpdated(orders, ureq.id, ureq.changes)
                    ELSE orders
       /\ ureq' = [UAnswer(ureq, 200) EXCEPT !.body = ProfileBody(ureq),
                                             !.cause = e]
  /\ UNCHANGED <<nextId, transactions, refunds, now, req, direct, health,
                 analytics, users, proc>>

\* The catch block of GET /users/:id/orders and GET /users/:id/payments.
ReadCatch(rev, e) ==
  IF e.code = "ECONNREFUSED" \/ (rev # "plain" /\ e.code = "ENOTFOUND")
  THEN 503
  ELSE 500

\* GET /users/:id/orders and GET /users/:id/payments, up to the first await:
\* the in-memory revision looks the user up at once and calls the other
\* service; the others issue the SELECT.
StartRead ==
  /\ UCanStart
  /\ \E rev \in UserRevisions, kind \in {"orders", "payments"}, id \in UserIds :
       LET rq == [IdleUser EXCEPT !.kind = kind, !.rev = rev, !.id = id]
       IN ureq' = IF HasUsersTable(rev) THEN [rq EXCEPT !.pc = "select"]
                  ELSE IF id \notin DOMAIN users THEN UAnswer(rq, 404)
                  ELSE [rq EXCEPT !.pc = "downstream", !.row = users[id]]
  /\ UNCHANGED <<orders, nextId, transactions, refunds, now, req, direct, health,
                 analytics, users, proc>>

\* SELECT id, name, email FROM users settles: the catch block, 404, or the
\* other service is called.
ReadSelect ==
  /\ ureq.kind \in {"orders", "payments"} /\ ureq.pc = "select"
  /\ \/ \E e \in DbErrs : ureq' = UDbFail(ureq, ReadCatch(ureq.rev, e))
     \/ ureq' = IF ureq.id \notin DOMAIN users THEN UAnswer(ureq, 404)
                ELSE [ureq EXCEPT !.pc = "downstream", !.row = users[ureq.id]]
  /\ UNCHANGED <<orders, nextId, transactions, refunds, now, req, direct, health,
                 analytics, users, proc>>

\* The call to the other service settles: on success the activity is logged
\* (the in-memory revision pushes it and answers), on failure the catch block
\* answers.
ReadDownstream ==
  /\ ureq.kind \in {"orders", "payments"} /\ ureq.pc = "downstream"
  /\ \E e \in DownstreamOutcomes :
       ureq' = IF e # Ok
               THEN [UAnswer(ureq, ReadCatch(ureq.rev, e)) EXCEPT !.cause = e]
               ELSE IF HasUsersTable(ureq.rev)
               THEN [ureq EXCEPT !.pc = "log", !.cause = e]
               ELSE [UAnswer(ureq, 200) EXCEPT !.cause = e, !.body = ureq.row]
  /\ UNCHANGED <<orders, nextId, transactions, refunds, now, req, direct, health,
                 analytics, users, proc>>

\* INSERT INTO user_activity settles: 200 with the user and the other
\* service's data, or the catch block.
ReadLog ==
  /\ ureq.kind \in {"orders", "payments"} /\ ureq.pc = "log"
  /\ \/ ureq' = [UAnswer(ureq, 200) EXCEPT !.body = ureq.row]
     \/ \E e \in DbErrs : ureq' = UDbFail(ureq, ReadCatch(ureq.rev, e))
  /\ UNCHANGED <<orders, nextId, transactions, refunds, now, req, direct, health,
                 analytics, users, proc>>

NextUser ==
  \/ StartProfile \/ ProfileUpdate \/ ProfileActivity \/ ProfileWebhook
  \/ StartRead \/ ReadSelect \/ ReadDownstream \/ ReadLog

SpecUser == Init /\ [][NextUser]_vars

\* ------------------------------------------------------------- GET /orders
\* Query parameters of GET /orders: the userId filter (0: none) and the limit.
ListUserIds == {0, 1}
ListLimits == {1, MaxReqs}

\* The rows the WHERE clause of the listing selects.
Matching(os, userId) ==
  {i \in DOMAIN os : Present(os[i]) /\ (userId # 0 => os[i].user_id = userId)}

\* GET /orders, up to the first await: the row query is issued.
StartList(r) ==
  /\ CanStart(r)
  /\ \E userId \in ListUserIds, limit \in ListLimits :
       Set(r, [req[r] EXCEPT !.kind = "list", !.pc = "rows", !.userId = userId,
                             !.limit = limit])
  /\ UNCHANGED <<orders, nextId, transactions, refunds, now, direct, health,
                 analytics, users, ureq, proc>>

\* SELECT * FROM orders ... LIMIT settles: the COUNT query is issued, or the
\* catch block answers.
ListRows(r) ==
  /\ req[r].kind = "list" /\ req[r].pc = "rows"
  /\ \/ Set(r, [req[r] EXCEPT
                  !.pc = "count",
                  !.filtered = Limited(Cardinality(Matching(orders, req[r].userId)),
                                       req[r].limit)])
     \/ Set(r, DbFail(r, [resp |-> 500, error |-> "Internal server error"]))
  /\ UNCHANGED <<orders, nextId, transactions, refunds, now, direct, health,
                 analytics, users, ureq, proc>>

\* SELECT COUNT(*) settles: 200 with the rows, `total` and `filtered`, or the
\* catch block.
ListCount(r) ==
  /\ req[r].kind = "list" /\ req[r].pc = "count"
  /\ \/ Set(r, [Answer(r, 200, "") EXCEPT
                  !.total = Cardinality(Matching(orders, req[r].userId))])
     \/ Set(r, [DbFail(r, [resp |-> 500, error |-> "Internal server error"])
                  EXCEPT !.filtered = 0])
  /\ UNCHANGED <<orders, nextId, transactions, refunds, now, direct, health,
                 analytics, users, ureq, proc>>

\* The order service's create, pay and list requests next to profile updates
\* of the user service.
NextSnapshot ==
  \/ \E r \in 1..MaxSide :
       \/ StartCreate(r) \/ CreateUser(r) \/ CreateInsert(r)
       \/ StartPay(r) \/ PaySelect(r) \/ PayCharge(r) \/ PayUpdate(r)
       \/ StartList(r) \/ ListRows(r) \/ ListCount(r)
  \/ StartProfile \/ ProfileUpdate \/ ProfileActivity \/ ProfileWebhook

SpecSnapshot == Init /\ [][NextSnapshot]_vars

\* GET /orders next to the requests that insert, update and delete rows.
NextListing ==
  \E r \in Reqs :
    \/ StartCreate(r) \/ CreateUser(r) \/ CreateInsert(r)
    \/ StartPay(r) \/ PaySelect(r) \/ PayCharge(r) \/ PayUpdate(r)
    \/ StartCancel(r) \/ CancelSelect(r) \/ CancelRefund(r) \/ CancelDelete(r)
    \/ StartList(r) \/ ListRows(r) \/ ListCount(r)

SpecListing == Init /\ [][NextListing]_vars

\* ------------------------------------------------- start-up and shutdown
\* The services whose process is followed: the order service, the payment
\* service over Postgres and the user service.
ProcKinds == {"order", "paymentPg", "user"}

\* initDB(retries = 5), called without an argument.
Retries == 5

\* initDB retries in a loop (order and payment service) or tries once.
Retrying(k) == k \in {"order", "paymentPg"}

\* The queries one attempt of initDB awaits in sequence: SELECT 1; SELECT 1
\* and two CREATE TABLE; two CREATE TABLE and SELECT COUNT(*) (whose rowCount
\* is 1, so the seeding INSERT is never issued).
InitQueries(k) == IF k = "order" THEN 1 ELSE 3

\* The service requires ./logger, whose module body registers its own SIGINT
\* and SIGTERM listeners before the service registers gracefulShutdown.
HasLogger(k) == k \in {"order", "paymentPg"}

Signals == {"SIGTERM", "SIGINT"}

\* The listeners of a signal, in the order of their registration.
Listeners(k, sig) ==
  IF HasLogger(k) THEN <<"logger", "gracefulShutdown">>
  ELSE IF sig = "SIGTERM" THEN <<"close">>
  ELSE <<>>

Alive(p) == p.phase \in {"running", "closing"}

\* process.exit(code), called by handler `by`.
Exit(p, code, by) ==
  [p EXCEPT !.phase = "exited", !.code = code, !.by = by, !.listening = FALSE,
            !.timer = FALSE]

\* server.close(callback): the server stops accepting connections; the
\* callback runs once the open connections have ended.
ServerClose(p) == [p EXCEPT !.phase = "closing", !.listening = FALSE]

\* gracefulShutdown(signal): server.close and the 10 s timer.
GracefulShutdown(p) == [ServerClose(p) EXCEPT !.timer = TRUE]

\* One listener of a signal runs.
RunListener(p, l) ==
  CASE l = "logger" -> Exit(p, 0, "logger")
    [] l = "gracefulShutdown" -> GracefulShutdown(p)
    [] l = "close" -> ServerClose(p)

\* emit(signal): the listeners run one after the other; process.exit leaves
\* the remaining ones unrun.
RECURSIVE Dispatch(_, _)
Dispatch(p, ls) ==
  IF ls = <<>> \/ ~Alive(p) THEN p
  ELSE Dispatch(RunListener(p, Head(ls)), Tail(ls))

\* node index.js up to the listen callback: the server listens and initDB
\* has issued its first query.
Boot(k) ==
  /\ proc.phase = "off"
  /\ proc' = [NoProc EXCEPT !.kind = k, !.phase = "running", !.listening = TRUE,
                            !.initPc = "query", !.attempts = 1, !.step = 1]
  /\ UNCHANGED <<orders, nextId, transactions, refunds, now, req, direct, health,
                 analytics, users, ureq>>

\* A query of initDB settles. Resolved: the next query of the attempt is
\* issued, or initDB returns. Rejected: the catch block logs and sleeps 5 s
\* (order and payment service) or logs and returns (user service).
InitQuery ==
  /\ Alive(proc) /\ proc.initPc = "query"
  /\ \E ok \in BOOLEAN :
       proc' = IF ok
               THEN IF proc.step < InitQueries(proc.kind)
                    THEN [proc EXCEPT !.step = @ + 1]
                    ELSE [proc EXCEPT !.initPc = "connected"]
               ELSE IF Retrying(proc.kind)
                    THEN [proc EXCEPT !.initPc = "sleep"]
                    ELSE [proc EXCEPT !.initPc = "failed"]
  /\ UNCHANGED <<orders, nextId, transactions, refunds, now, req, direct, health,
                 analytics, users, ureq>>

\* Mutant of InitSleep: after the last attempt initDB returns instead of
\* throwing.
InitSleep_Swallows ==
  /\ Alive(proc) /\ proc.initPc = "sleep"
  /\ proc' = IF proc.attempts < Retries
             THEN [proc EXCEPT !.initPc = "query", !.attempts = @ + 1, !.step = 1]
             ELSE [proc EXCEPT !.initPc = "failed"]
  /\ UNCHANGED <<orders, nextId, transactions, refunds, now, req, direct, health,
                 analytics, users, ureq>>

\* The 5 s sleep of the catch block ends: i++, and the next iteration issues
\* its query, or the loop is over, initDB throws and the catch of the listen
\* callback calls process.exit(1).
InitSleep ==
  /\ Alive(proc) /\ proc.initPc = "sleep"
  /\ proc' = IF proc.attempts < Retries
             THEN [proc EXCEPT !.initPc = "query", !.attempts = @ + 1, !.step = 1]
             ELSE Exit([proc EXCEPT !.initPc = "failed"], 1, "initDB")
  /\ UNCHANGED <<orders, nextId, transactions, refunds, now, req, direct, health,
                 analytics, users, ureq>>

\* The process receives a signal: its listeners run; without a listener the
\* signal terminates the process (SIGINT: code 130).
Signal(sig) ==
  /\ Alive(proc)
  /\ LET ls == Listeners(proc.kind, sig)
     IN proc' = IF ls = <<>> THEN Exit(proc, 130, "default")
                ELSE Dispatch(proc, ls)
  /\ UNCHANGED <<orders, nextId, transactions, refunds, now, req, direct, health,
                 analytics, users, ureq>>

\* A client connects to the listening server.
Connect ==
  /\ Alive(proc) /\ proc.listening /\ proc.conns < MaxConns
  /\ proc' = [proc EXCEPT !.conns = @ + 1]
  /\ UNCHANGED <<orders, nextId, transactions, refunds, now, req, direct, health,
                 analytics, users, ureq>>

\* A connection ends.
Disconnect ==
  /\ Alive(proc) /\ proc.conns > 0
  /\ proc' = [proc EXCEPT !.conns = @ - 1]
  /\ UNCHANGED <<orders, nextId, transactions, refunds, now, req, direct, health,
                 analytics, users, ureq>>

\* The callback of server.close: pool.end() and process.exit(0).
CloseCallback(p) == Exit([p EXCEPT !.closed = TRUE, !.poolEnded = TRUE], 0, "close")

\* The 10 s timer of gracefulShutdown: process.exit(1).
ForcedShutdown(p) == Exit(p, 1, "timer")

\* A shutdown in progress settles: the last connection has ended and the
\* close callback runs, or connections are still open when the timer fires.
ShutdownSettles ==
  /\ proc.phase = "closing"
  /\ \/ proc.conns = 0 /\ proc' = CloseCallback(proc)
     \/ proc.timer /\ proc.conns > 0 /\ proc' = ForcedShutdown(proc)
  /\ UNCHANGED <<orders, nextId, transactions, refunds, now, req, direct, health,
                 analytics, users, ureq>>

NextProcess ==
  \/ \E k \in ProcKinds : Boot(k)
  \/ InitQuery
  \/ InitSleep
  \/ \E sig \in Signals : Signal(sig)
  \/ Connect
  \/ Disconnect
  \/ ShutdownSettles

SpecProcess == Init /\ [][NextProcess]_vars

\* pool.query settles and the 5 s timer fires.
ProcFairness == WF_vars(InitQuery) /\ WF_vars(InitSleep)

SpecProcessLive == SpecProcess /\ ProcFairness

\* ------------------------------------------------------------- GET /health
\* The /health handlers that fan out to dependencies: the order service's
\* ("order"), the payment service's ("payment"), the in-memory user service's
\* ("user"), and those of the payment and user services that keep their data
\* in Postgres ("paymentPg", "userPg").
HealthServices == {"order", "payment", "user", "paymentPg", "userPg"}

\* The `services` map of each handler (the two URLs of the user service's).
Services(svc) ==
  IF svc = "order" THEN {"userService", "paymentService"}
  ELSE IF svc = "payment" THEN {"userService", "paymentService", "orderService"}
  ELSE IF svc = "paymentPg" THEN {"userService", "orderService"}
  ELSE {"orderService", "paymentService"}

\* Handlers that query the local store.
HasStore(svc) == svc \in {"order", "paymentPg", "userPg"}

\* Awaits of the handler's COUNT queries after the join: one query (order),
\* two queries one after the other (paymentPg), three queries under one
\* Promise.all (userPg).
CountAwaits(svc) == IF svc = "paymentPg" THEN 2 ELSE 1

\* How a readiness call (axios.get(url, {timeout})) can settle.
CallOutcomes == {"ok", "ECONNREFUSED", "ECONNABORTED", "ERR_BAD_RESPONSE"}

\* The promise the order and payment handlers hand to Promise.allSettled:
\* axios.get(...).then(() => ({status: "ok"})).catch(err => ({status: 'down'})).
\* The catch handler returns a value, so the promise is fulfilled either way.
GuardedCall(outcome) ==
  [status |-> "fulfilled", value |-> IF outcome = "ok" THEN "ok" ELSE "down"]

\* The promise the user service hands to Promise.allSettled: the axios call
\* itself.
RawCall(outcome) ==
  IF outcome = "ok" THEN [status |-> "fulfilled", value |-> "ok"]
  ELSE [status |-> "rejected", value |-> outcome]

\* Promise.allSettled over the handler's calls.
AllSettled(svc, calls) ==
  [d \in DOMAIN calls |->
     IF svc = "user" THEN RawCall(calls[d]) ELSE GuardedCall(calls[d])]

\* statusReport / deps: 'ok' for a fulfilled result, 'down' otherwise.
StatusReport(results) ==
  [d \in DOMAIN results |-> IF results[d].status = "fulfilled" THEN "ok" ELSE "down"]

\* The overall status word and the HTTP status of the response.
Overall(svc, report) ==
  LET allOk == \A d \in DOMAIN report : report[d] = "ok"
  IN IF svc = "user"
     THEN [status |-> IF allOk THEN "ok" ELSE "degraded",
           resp |-> IF allOk THEN 200 ELSE 503]
     ELSE [status |-> IF allOk THEN "ok" ELSE "partial", resp |-> 200]

\* Mutant of HealthError: a store failure is reported like a failed dependency.
HealthError_Partial(hr) ==
  [hr EXCEPT !.pc = "done", !.resp = 200, !.status = "partial", !.deps = <<>>,
             !.left = 0, !.dbFailed = TRUE]

\* The handler's catch block: a store query was rejected.
HealthError(hr) ==
  [hr EXCEPT !.pc = "done", !.resp = 500, !.status = "error", !.deps = <<>>,
             !.left = 0, !.dbFailed = TRUE]

\* Every readiness call is issued before any is awaited.
FanOut(hr) ==
  [hr EXCEPT !.pc = "fanout", !.calls = [d \in Services(hr.svc) |-> "pending"]]

HCanStart(h) ==
  health[h].pc = "idle" /\ (IF h = 1 THEN TRUE ELSE health[h - 1].pc # "idle")

\* GET /health arrives: the store check is issued, or the fan-out right away.
StartHealth(h) ==
  /\ HCanStart(h)
  /\ \E svc \in HealthServices :
       health' = [health EXCEPT ![h] =
         IF HasStore(svc) THEN [@ EXCEPT !.svc = svc, !.pc = "db"]
         ELSE FanOut([@ EXCEPT !.svc = svc])]
  /\ UNCHANGED <<orders, nextId, transactions, refunds, now, req, direct, analytics,
               users, ureq, proc>>

\* SELECT 1 settles.
HealthDb(h) ==
  /\ health[h].pc = "db"
  /\ \/ health' = [health EXCEPT ![h] = FanOut(@)]
     \/ health' = [health EXCEPT ![h] = HealthError(@)]
  /\ UNCHANGED <<orders, nextId, transactions, refunds, now, req, direct, analytics,
               users, ureq, proc>>

\* One readiness call settles.
HealthSettle(h) ==
  /\ health[h].pc = "fanout"
  /\ \E d \in DOMAIN health[h].calls, outcome \in CallOutcomes :
       /\ health[h].calls[d] = "pending"
       /\ health' = [health EXCEPT ![h].calls[d] = outcome]
  /\ UNCHANGED <<orders, nextId, transactions, refunds, now, req, direct, analytics,
               users, ureq, proc>>

\* The handler goes on after the join: a handler with a store counts its
\* rows, the others answer.
Joined(hr, calls) ==
  LET report == StatusReport(AllSettled(hr.svc, calls))
      all == Overall(hr.svc, report)
  IN IF HasStore(hr.svc)
     THEN [hr EXCEPT !.pc = "count", !.deps = report, !.status = all.status,
                     !.left = CountAwaits(hr.svc)]
     ELSE [hr EXCEPT !.pc = "done", !.deps = report, !.status = all.status,
                     !.resp = all.resp]

\* Mutant of HealthJoin: the join ends at the first failed call (Promise.all),
\* with the calls that have settled so far.
HealthJoin_FirstFailure(h) ==
  /\ health[h].pc = "fanout"
  /\ \/ \A d \in DOMAIN health[h].calls : health[h].calls[d] # "pending"
     \/ \E d \in DOMAIN health[h].calls : health[h].calls[d] \notin {"pending", "ok"}
  /\ health' = [health EXCEPT ![h] =
       Joined(@, [d \in {c \in DOMAIN @.calls : @.calls[c] # "pending"} |-> @.calls[d]])]
  /\ UNCHANGED <<orders, nextId, transactions, refunds, now, req, direct, analytics,
               users, ureq, proc>>

\* await Promise.allSettled(...): the handler goes on once every call has
\* settled.
HealthJoin(h) ==
  /\ health[h].pc = "fanout"
  /\ \A d \in DOMAIN health[h].calls : health[h].calls[d] # "pending"
  /\ health' = [health EXCEPT ![h] = Joined(@, @.calls)]
  /\ UNCHANGED <<orders, nextId, transactions, refunds, now, req, direct, analytics,
               users, ureq, proc>>

\* An await of the COUNT queries settles: the next one is issued, or the
\* handler answers 200, or the catch block answers.
HealthCount(h) ==
  /\ health[h].pc = "count"
  /\ \/ health' = [health EXCEPT ![h] =
            IF @.left > 1 THEN [@ EXCEPT !.left = @ - 1]
            ELSE [@ EXCEPT !.pc = "done", !.resp = 200, !.left = 0]]
     \/ health' = [health EXCEPT ![h] = HealthError(@)]
  /\ UNCHANGED <<orders, nextId, transactions, refunds, now, req, direct, analytics,
               users, ureq, proc>>

\* Mutant of Ready: readiness reports a store that a health check found down.
Ready_ChecksStore ==
  /\ direct' = [NoDirect EXCEPT
                  !.op = "ready",
                  !.status = IF \E h \in HReqs : health[h].dbFailed THEN 503 ELSE 200]
  /\ UNCHANGED <<orders, nextId, transactions, refunds, now, req, health, analytics,
               users, ureq, proc>>

\* GET /ready of any of the services: res.sendStatus(200), with no query and
\* no call.
Ready ==
  /\ direct' = [NoDirect EXCEPT !.op = "ready", !.status = 200]
  /\ UNCHANGED <<orders, nextId, transactions, refunds, now, req, health, analytics,
               users, ureq, proc>>

NextHealth ==
  \/ \E h \in HReqs :
       \/ StartHealth(h) \/ HealthDb(h) \/ HealthSettle(h) \/ HealthJoin(h)
       \/ HealthCount(h)
  \/ Ready

SpecHealth == Init /\ [][NextHealth]_vars

\* ---------------------------------------------------- GET /analytics/orders
\* The awaited store queries of the handler, in order: COUNT(*), GROUP BY
\* status, AVG(amount), SELECT user_id.
AnalyticsQueries == 4

\* SELECT user_id FROM orders: one row per order of the table.
RECURSIVE UserIdRows(_, _)
UserIdRows(os, i) ==
  IF i > MaxReqs THEN <<>>
  ELSE (IF Present(os[i]) THEN <<os[i].user_id>> ELSE <<>>) \o UserIdRows(os, i + 1)

\* How GET user-service/users/:id/profile can settle for user u: the profile
\* with its demographics, the profile of a user whose demographics column is
\* NULL, or a failure.
Demographics(u) == <<"demographics", u>>
ProfileOutcomes(u) ==
  {[ok |-> TRUE, demographics |-> Demographics(u), code |-> ""],
   [ok |-> TRUE, demographics |-> NULL, code |-> ""],
   [ok |-> FALSE, demographics |-> NULL, code |-> "ECONNREFUSED"],
   [ok |-> FALSE, demographics |-> NULL, code |-> "ECONNABORTED"]}

\* A profile call that has not settled.
Pending == [ok |-> FALSE, demographics |-> NULL, code |-> "pending"]

\* The sentinel 'unknown'.
Unknown == <<"unknown">>

\* What a profile promise resolves to: the .catch of a failed call returns
\* { data: { demographics: 'unknown' } }.
Caught(c) == IF c.ok THEN c.demographics ELSE Unknown

\* Mutant of UserDemographics: failed calls are left out.
UserDemographics_DropFailed(calls) ==
  LET kept == SelectSeq(calls, LAMBDA c : c.ok)
  IN [i \in 1..Len(kept) |->
        IF Caught(kept[i]) = NULL THEN Unknown ELSE Caught(kept[i])]

\* userProfiles.map(p => p.data.demographics || 'unknown')
UserDemographics(calls) ==
  [i \in 1..Len(calls) |->
     IF Caught(calls[i]) = NULL THEN Unknown ELSE Caught(calls[i])]

\* GET /analytics/orders arrives: the first query is issued.
StartAnalytics ==
  /\ analytics.pc = "idle"
  /\ analytics' = [analytics EXCEPT !.pc = "query", !.query = 1]
  /\ UNCHANGED <<orders, nextId, transactions, refunds, now, req, direct, health,
               users, ureq, proc>>

\* A store query settles: the next one is issued; after the last one the
\* profile calls are issued, one per row; a rejected query is answered 500.
AnalyticsQuery ==
  /\ analytics.pc = "query"
  /\ \/ analytics' =
          IF analytics.query < AnalyticsQueries
          THEN [analytics EXCEPT !.query = @ + 1]
          ELSE LET rows == UserIdRows(orders, 1)
               IN [analytics EXCEPT !.pc = "fanout", !.rows = rows,
                                    !.calls = [i \in 1..Len(rows) |-> Pending]]
     \/ analytics' = [analytics EXCEPT !.pc = "done", !.resp = 500, !.dbFailed = TRUE]
  /\ UNCHANGED <<orders, nextId, transactions, refunds, now, req, direct, health,
               users, ureq, proc>>

\* One profile call settles.
ProfileSettles ==
  /\ analytics.pc = "fanout"
  /\ \E i \in 1..Len(analytics.calls) :
       /\ analytics.calls[i] = Pending
       /\ \E c \in ProfileOutcomes(analytics.rows[i]) :
            analytics' = [analytics EXCEPT !.calls[i] = c]
  /\ UNCHANGED <<orders, nextId, transactions, refunds, now, req, direct, health,
               users, ureq, proc>>

\* await Promise.all(userPromises): every promise has resolved, the handler
\* answers 200 with the analytics document.
AnalyticsJoin ==
  /\ analytics.pc = "fanout"
  /\ \A i \in 1..Len(analytics.calls) : analytics.calls[i] # Pending
  /\ analytics' = [analytics EXCEPT !.pc = "done", !.resp = 200,
                      !.userDemographics = UserDemographics(analytics.calls)]
  /\ UNCHANGED <<orders, nextId, transactions, refunds, now, req, direct, health,
               users, ureq, proc>>

\* The analytics request next to the requests that create orders.
NextAnalytics ==
  \/ \E r \in Reqs : StartCreate(r) \/ CreateUser(r) \/ CreateInsert(r)
  \/ StartAnalytics \/ AnalyticsQuery \/ ProfileSettles \/ AnalyticsJoin

SpecAnalytics == Init /\ [][NextAnalytics]_vars

\* ================================================================ claims
\* Requests of one kind, and those that have been answered.
Of(kind) == {r \in Reqs : req[r].kind = kind}
Done(kind) == {r \in Of(kind) : req[r].pc = "done"}

\* Request r is answered in this step.
Answered(r) == req[r].pc # "done" /\ req'[r].pc = "done"

\* Request r's SELECT of the order settles in this step without a store error.
Selects(r, kind) ==
  /\ req[r].kind = kind /\ req[r].pc = "select" /\ req'[r].pc # "select"
  /\ ~req'[r].dbFailed

\* Non-refunded transactions recorded for an order.
Unrefunded(id) ==
  {i \in 1..Len(transactions) :
     /\ transactions[i].orderId = id
     /\ TotalRefunded(refunds, transactions[i].transactionId) = 0}

\* ---- C1: an order's status changes only pending->paid, pending->cancelled
\* or paid->cancelled (a row that stays as it is, and the creation of a row,
\* aside); in particular a paid row is never paid again with new details.
StatusStep(o, p) ==
  \/ p = o
  \/ o.status = "none" /\ p.status = "pending"
  \/ o.status = "pending" /\ p.status \in {"paid", "cancelled"}
  \/ o.status = "paid" /\ p.status = "cancelled"

C1_OnlyAllowedTransitions ==
  [][\A i \in OrderIds : StatusStep(orders[i], orders'[i])]_vars

\* ---- C2: of the pay requests on one order id, at most one is answered 200.
C2_AtMostOnePaySucceeds ==
  \A i \in OrderIds :
    Cardinality({r \in Done("pay") : req[r].id = i /\ req[r].resp = 200}) <= 1

\* ---- C3: at the payment layer every order id has at most one transaction
\* that has not been refunded.
C3_OneUnrefundedTransaction ==
  \A i \in OrderIds : Cardinality(Unrefunded(i)) <= 1

\* ---- C4: the refunds recorded against a transaction never add up to more
\* than its amount, and GET /transactions/:id/status never reports a negative
\* netAmount.
C4_RefundsWithinAmount ==
  /\ \A i \in 1..Len(transactions) :
       TotalRefunded(refunds, transactions[i].transactionId) <= transactions[i].amount
  /\ (direct.op = "status" /\ direct.status = 200) => direct.net >= 0

\* ---- C5: a pay request answered 402, 503, 504 or 500 has not written the
\* order: the step that answers it leaves the table as it is, the request
\* never wrote a row, the row it read was pending with no payment details and
\* no paid timestamp, and a pay request that reads a pending row is forwarded
\* to the payment service, whatever failed before.
PayErrors == {402, 503, 504, 500}

C5_FailedPayLeavesOrder ==
  [][\A r \in Reqs :
       /\ (req'[r].kind = "pay" /\ Answered(r) /\ req'[r].resp \in PayErrors)
            => /\ orders' = orders
               /\ req'[r].writes = 0
               /\ req[r].pc # "select"
                    => /\ req[r].order.status = "pending"
                       /\ req[r].order.payment_details = NoTxn
                       /\ req[r].order.paid_at = 0
                       /\ orders[req[r].id] = req[r].order
                            => orders'[req[r].id].status = "pending"
       /\ (Selects(r, "pay") /\ orders[req[r].id].status = "pending")
            => req'[r].pc = "charge" /\ req'[r].payCalls = 1]_vars

\* A pay request failed after its charge was posted, and a later pay request
\* on the same order was answered 200 with the order paid.
C5_Witness ==
  \E r1, r2 \in Done("pay") :
    /\ r1 < r2 /\ req[r1].id = req[r2].id
    /\ req[r1].resp \in PayErrors /\ req[r1].payCalls = 1
    /\ req[r2].resp = 200 /\ req[r2].body.status = "paid"

\* ---- C6: POST /orders stores an order if and only if it answers 201; with
\* a required field missing (400) the user service is not called; the rows of
\* the table are exactly the orders answered 201.
CreateStatuses == {201, 400, 404, 503, 504, 500}

C6_CreateAllOrNothing ==
  /\ \A r \in Of("create") :
       /\ req[r].pc # "done" => req[r].writes = 0
       /\ req[r].pc = "done" =>
            /\ req[r].resp \in CreateStatuses
            /\ req[r].resp = 201 <=> req[r].writes = 1
            /\ req[r].resp = 201 => orders[req[r].id].status # "none"
            /\ req[r].resp = 400 => req[r].userCalls = 0
  /\ Cardinality({i \in OrderIds : orders[i].status # "none"})
       = Cardinality({r \in Done("create") : req[r].resp = 201})

\* One create stored its order and answered 201; others were refused, one for
\* an unknown user, one for a missing field, and no row exists for them.
C6_Witness ==
  /\ \E r \in Done("create") : req[r].resp = 201 /\ Present(orders[req[r].id])
  /\ \E r \in Done("create") : req[r].resp = 404 /\ req[r].userCalls = 1
  /\ \E r \in Done("create") : req[r].resp = 400
  /\ Cardinality({i \in OrderIds : orders[i].status # "none"}) = 1

\* ---- C7: a pay request that reads the order as paid answers 400 'Order
\* already paid', posts nothing to the payment service and leaves the order
\* (status, payment details, paid timestamp) and the ledger as they were.
C7_PayOnPaidRejected ==
  [][\A r \in Reqs :
       (Selects(r, "pay") /\ orders[req[r].id].status = "paid")
         => /\ req'[r].pc = "done" /\ req'[r].resp = 400
            /\ req'[r].error = "Order already paid"
            /\ req'[r].payCalls = 0 /\ req'[r].writes = 0
            /\ orders' = orders /\ transactions' = transactions]_vars

\* A pay request on a paid order has been answered 400.
C7_Witness ==
  \E r \in Done("pay") :
    /\ req[r].read = "paid" /\ req[r].resp = 400
    /\ req[r].error = "Order already paid"
    /\ orders[req[r].id].status = "paid"
    /\ orders[req[r].id].payment_details # NoTxn

\* ---- C8: a pay request for an id with no row answers 404, leaves the
\* table unchanged and sends nothing to the payment service, so no transaction
\* is created.
C8_PayOnAbsentIs404 ==
  [][\A r \in Reqs :
       (Selects(r, "pay") /\ ~Present(orders[req[r].id]))
         => /\ req'[r].pc = "done" /\ req'[r].resp = 404
            /\ req'[r].payCalls = 0 /\ req'[r].writes = 0
            /\ orders' = orders /\ transactions' = transactions]_vars

\* A pay request for an id without a row has been answered 404.
C8_Witness ==
  \E r \in Done("pay") :
    /\ req[r].read = "absent" /\ req[r].resp = 404 /\ req[r].payCalls = 0
    /\ ~Present(orders[req[r].id])

\* ---- C9: in a /health response produced with the local store reachable,
\* deps[name] is 'down' exactly when that dependency's readiness call failed,
\* and the overall status is 'ok' exactly when every dependency is ok.
C9_DepsMapExact ==
  \A h \in HReqs :
    (health[h].pc = "done" /\ health[h].status # "error")
      => /\ DOMAIN health[h].deps = Services(health[h].svc)
         /\ \A d \in DOMAIN health[h].deps :
              health[h].deps[d] = "down" <=> health[h].calls[d] # "ok"
         /\ health[h].status = "ok"
              <=> \A d \in DOMAIN health[h].calls : health[h].calls[d] = "ok"

\* ---- C11: in POST /orders with valid fields the outcome of the user lookup
\* is translated by a fixed table: remote 404 -> 404 with the user id in the
\* message; connection refused or DNS failure -> 503; timeout -> 504; any
\* other failure -> 500 'Failed to create order'; success -> the INSERT is
\* issued and, the store not failing, the answer is 201.
UserCallSettles(r) ==
  req[r].kind = "create" /\ req[r].pc = "user" /\ req'[r].pc # "user"

C11_CreateTable ==
  [][\A r \in Reqs :
       /\ UserCallSettles(r) =>
            LET e == req'[r].cause
                a == req'[r]
            IN /\ e = Ok => a.pc = "insert"
               /\ e # Ok => a.pc = "done"
               /\ e.status = 404 => a.resp = 404 /\ a.detail = req[r].userId
               /\ (e.status # 404 /\ e.code \in {"ECONNREFUSED", "ENOTFOUND"})
                    => a.resp = 503
               /\ (e.status # 404 /\ e.code = "ECONNABORTED") => a.resp = 504
               /\ (e # Ok /\ e.status # 404
                     /\ e.code \notin {"ECONNREFUSED", "ENOTFOUND", "ECONNABORTED"})
                    => a.resp = 500 /\ a.error = "Failed to create order"
       /\ (req[r].kind = "create" /\ req[r].pc = "insert" /\ Answered(r)
             /\ ~req'[r].dbFailed)
            => req'[r].resp = 201 /\ req'[r].cause = Ok]_vars

\* Three creates with valid fields: the user lookup of one answered 404 (and
\* the message names the user), of one timed out (504), of one succeeded (201).
C11_Witness ==
  /\ \E r \in Done("create") :
       req[r].cause.status = 404 /\ req[r].resp = 404 /\ req[r].detail = 2
  /\ \E r \in Done("create") :
       req[r].cause.code = "ECONNABORTED" /\ req[r].resp = 504
  /\ \E r \in Done("create") : req[r].cause = Ok /\ req[r].resp = 201

\* ---- C12: in POST /orders/:id/pay on a pending order the outcome of the
\* charge is translated by a fixed table: remote 402 -> 402 with the payment
\* service's reason in the message; remote 404 -> 404; connection refused or
\* DNS failure -> 503; timeout -> 504; any other failure -> 500; success ->
\* the UPDATE is issued and, the store not failing, the answer is 200.
ChargeSettles(r) ==
  req[r].kind = "pay" /\ req[r].pc = "charge" /\ req'[r].pc # "charge"

C12_PayTable ==
  [][\A r \in Reqs :
       /\ ChargeSettles(r) =>
            LET e == req'[r].cause
                a == req'[r]
            IN /\ e = Ok => a.pc = "update"
               /\ e # Ok => a.pc = "done"
               /\ e.status = 402
                    => a.resp = 402 /\ a.detail = "Payment failed: Insufficient funds"
               /\ e.status = 404 => a.resp = 404
               /\ (e.status \notin {402, 404} /\ e.code \in {"ECONNREFUSED", "ENOTFOUND"})
                    => a.resp = 503
               /\ (e.status \notin {402, 404} /\ e.code = "ECONNABORTED")
                    => a.resp = 504
               /\ (e # Ok /\ e.status \notin {402, 404}
                     /\ e.code \notin {"ECONNREFUSED", "ENOTFOUND", "ECONNABORTED"})
                    => a.resp = 500
       /\ (req[r].kind = "pay" /\ req[r].pc = "update" /\ Answered(r)
             /\ ~req'[r].dbFailed)
            => req'[r].resp = 200]_vars

C14_WaitForAllJoin ==
  /\ [](\A h \in HReqs :
          /\ health[h].pc \in {"fanout", "count"}
               => DOMAIN health[h].calls = Services(health[h].svc)
          /\ health[h].pc = "count" \/ (health[h].pc = "done" /\ ~health[h].dbFailed)
               => /\ DOMAIN health[h].deps = Services(health[h].svc)
                  /\ \A d \in Services(health[h].svc) :
                       health[h].calls[d] # "pending")
  /\ [][\A h \in HReqs :
          /\ (health[h].pc # "fanout" /\ health'[h].pc = "fanout")
               => health'[h].calls = [d \in Services(health'[h].svc) |-> "pending"]
          /\ (health[h].pc = "fanout" /\ health'[h].calls # health[h].calls)
               => /\ health'[h].pc = "fanout"
                  /\ Cardinality({d \in DOMAIN health[h].calls :
                                    health'[h].calls[d] # health[h].calls[d]}) = 1
                  /\ \A d \in DOMAIN health[h].calls :
                       health[h].calls[d] # "pending"
                         => health'[h].calls[d] = health[h].calls[d]]_vars

\* The payment service's handler answered after three calls of which the
\* first to be looked at was refused and the others succeeded.
C14_Witness ==
  \E h \in HReqs :
    /\ health[h].pc = "done" /\ health[h].svc = "payment" /\ health[h].resp = 200
    /\ health[h].calls["userService"] = "ECONNREFUSED"
    /\ health[h].calls["paymentService"] = "ok"
    /\ health[h].calls["orderService"] = "ok"
    /\ DOMAIN health[h].deps = {"userService", "paymentService", "orderService"}

\* ---- C15: when a local-store query of GET /health fails the response's
\* status is 'error' (HTTP 500), never 'ok', 'partial' or 'degraded', whatever
\* the dependencies answered; every answered health request has one response
\* (a status word and an HTTP status), and it never changes.
C15_StoreFailureIsError ==
  /\ [](\A h \in HReqs :
          health[h].pc = "done"
            => /\ health[h].resp \in {200, 500, 503}
               /\ health[h].status \in {"ok", "partial", "degraded", "error"}
               /\ health[h].dbFailed
                    => health[h].status = "error" /\ health[h].resp = 500)
  /\ [][\A h \in HReqs : health[h].pc = "done" => health'[h] = health[h]]_vars

\* The COUNT query of a handler with a store failed after every dependency
\* had answered, and the response says 'error'.
C15_Witness ==
  \E h \in HReqs :
    /\ health[h].pc = "done" /\ health[h].dbFailed /\ health[h].svc = "paymentPg"
    /\ DOMAIN health[h].calls = Services(health[h].svc)
    /\ \A d \in Services(health[h].svc) : health[h].calls[d] = "ok"
    /\ health[h].status = "error" /\ health[h].resp = 500

\* ---- C16: a pay request answered 200 carries the order, with status
\* 'paid' and its payment details, whatever other requests on the same order
\* id it overlapped with.
C16_PaidBodyComplete ==
  \A r \in Done("pay") :
    req[r].resp = 200
      => req[r].body.status = "paid" /\ req[r].body.payment_details # NoTxn

\* ---- C17: a cancelled order is never resurrected: once its row has been
\* deleted no step makes it present or paid again, and a GET, pay or cancel
\* that looks an absent id up answers 404, leaves the table and the ledger as
\* they are and sends nothing to the payment service.
Lookups == {"get", "pay", "cancel"}

C17_NeverResurrected ==
  [][/\ \A i \in OrderIds :
          orders[i].status = "cancelled" => orders'[i] = orders[i]
     /\ \A r \in Reqs :
          (\E k \in Lookups : Selects(r, k) /\ ~Present(orders[req[r].id]))
            => /\ req'[r].pc = "done" /\ req'[r].resp = 404
               /\ req'[r].payCalls = 0 /\ req'[r].refundCalls = 0
               /\ orders' = orders
               /\ transactions' = transactions /\ refunds' = refunds]_vars

\* An order was cancelled with 200 while a pay request on it was waiting for
\* its charge; the pay request went on to its UPDATE and was answered, and the
\* order is still cancelled.
C17_Witness ==
  \E c \in Done("cancel"), p \in Done("pay") :
    /\ req[c].id = req[p].id /\ req[c].resp = 200
    /\ req[p].read = "pending" /\ req[p].resp = 200 /\ req[p].writes = 0
    /\ orders[req[c].id].status = "cancelled"

\* ---- C18: GET /analytics/orders that issued N profile calls (none of its
\* store queries having failed) answers 200 whatever subset of the calls failed, and
\* userDemographics has N entries in the order of the calls: 'unknown' for
\* every failed call, the demographics of the profile for a successful one.
C18_EnrichmentDegradesPerItem ==
  (analytics.pc = "done" /\ ~analytics.dbFailed)
    => /\ analytics.resp = 200
       /\ Len(analytics.calls) = Len(analytics.rows)
       /\ Len(analytics.userDemographics) = Len(analytics.calls)
       /\ \A i \in 1..Len(analytics.calls) :
            LET c == analytics.calls[i]
            IN /\ ~c.ok => analytics.userDemographics[i] = Unknown
               /\ (c.ok /\ c.demographics # NULL)
                    => analytics.userDemographics[i] = Demographics(analytics.rows[i])

\* Three profile calls of which the second failed: 200 with three entries,
\* the second one 'unknown', the others the users' demographics.
C18_Witness ==
  /\ analytics.pc = "done" /\ analytics.resp = 200
  /\ Len(analytics.calls) = 3
  /\ analytics.calls[1].ok /\ ~analytics.calls[2].ok /\ analytics.calls[3].ok
  /\ analytics.userDemographics = <<Demographics(1), Unknown, Demographics(1)>>

\* ---- C19: a cancel request that read the order as paid, with the payment
\* service reachable and holding the order's transaction, has sent exactly
\* one refund request, for the transaction id of the order's payment details
\* and the order's amount, so that such a refund is recorded.
Unreached == {"ECONNREFUSED", "ENOTFOUND", "ECONNABORTED", "ERR_BAD_RESPONSE"}

C19_RefundSent ==
  \A r \in Done("cancel") :
    LET tx == req[r].body.payment_details.transactionId
    IN (/\ req[r].read = "paid" /\ req[r].resp = 200
        /\ req[r].refund \notin Unreached
        /\ FindTransaction(transactions, tx) # 0)
         => /\ req[r].refundCalls = 1
            /\ \E i \in 1..Len(refunds) :
                 /\ refunds[i].originalTransactionId = tx
                 /\ refunds[i].amount = req[r].body.amount

\* ---- C20: every order POST /orders has stored, and every order it has
\* answered 201 with, has an amount greater than 0.
C20_StoredAmountPositive ==
  /\ \A i \in OrderIds : Present(orders[i]) => orders[i].amount > 0
  /\ \A r \in Done("create") : req[r].resp = 201 => req[r].body.amount > 0

\* ---- C21: the amount of every recorded transaction is at most the amount
\* of the order its orderId names, whether the transaction was created by the
\* order service's pay operation or by a direct POST /pay.
C21_AmountWithinOrder ==
  \A i \in 1..Len(transactions) :
    LET id == transactions[i].orderId
    IN (id \in OrderIds /\ Present(orders[id]))
         => transactions[i].amount <= orders[id].amount

\* ---- C22: all recorded transactions have pairwise distinct transaction
\* ids, and all recorded refunds pairwise distinct refund ids.
C22_IdsUnique ==
  /\ \A i, j \in 1..Len(transactions) :
       i # j => transactions[i].transactionId # transactions[j].transactionId
  /\ \A i, j \in 1..Len(refunds) :
       i # j => refunds[i].refundId # refunds[j].refundId

\* ---- C10: a cancel request that reads the order as paid answers 200 and
\* removes the order for every outcome of the refund call (no store query
\* failing).
C10_CancelNeverBlocked ==
  \A r \in Done("cancel") :
    (req[r].read = "paid" /\ ~req[r].dbFailed)
      => req[r].resp = 200 /\ orders[req[r].id].status = "cancelled"

\* A paid order was cancelled with 200 although the refund call was refused.
C10_Witness ==
  \E r \in Done("cancel") :
    /\ req[r].read = "paid" /\ req[r].refund = "ECONNREFUSED"
    /\ req[r].resp = 200 /\ orders[req[r].id].status = "cancelled"

\* Requests to POST /pay that pass the validation: an orderId and a positive
\* amount.
ValidPays ==
  {q \in [orderId : DirectOrderIds, amount : DirectAmounts, userId : DirectUserIds,
          shouldFail : BOOLEAN, inserted : BOOLEAN, t : Readings] :
     q.orderId # 0 /\ q.amount > 0 /\ q.userId # 0}

\* The two runs of one request that differ only in the outcome of the buyer
\* lookup.
Run(q, userOk) ==
  StoredPay(transactions, q.orderId, q.amount, q.userId, userOk, q.shouldFail,
            q.t, q.inserted)

\* Both runs answer the same status, record a transaction or not alike, and
\* what they record differs in the user field only, empty after a failed
\* lookup.
SameButUser(q) ==
  LET a == Run(q, TRUE)
      b == Run(q, FALSE)
  IN /\ a.status = b.status
     /\ Len(a.transactions) = Len(b.transactions)
     /\ a.status # 200 => a.transactions = transactions /\ b.transactions = transactions
     /\ a.status = 200 =>
          /\ b.transactions = Append(transactions, b.data)
          /\ a.transactions = Append(transactions, a.data)
          /\ b.data = [a.data EXCEPT !.user = 0]
          /\ a.data.user = q.userId

RefundInputs ==
  [transactionId : DirectTxnIds, amount : DirectAmounts \ {-1},
   selected : BOOLEAN, inserted : BOOLEAN, t : Readings]

Refunded(q) ==
  StoredRefund(transactions, refunds, q.transactionId, q.amount, q.t,
               q.selected, q.inserted)

\* What POST /refund has to answer to q on the present ledger: 400 when a
\* field is missing or the amount exceeds the transaction's, 404 when the
\* transaction is unknown, 200 otherwise.
RefundTable(q) ==
  LET i == FindTransaction(transactions, q.transactionId)
  IN IF q.transactionId = NULL \/ q.amount = 0 THEN 400
     ELSE IF i = 0 THEN 404
     ELSE IF q.amount > transactions[i].amount THEN 400
     ELSE 200

\* An error leaves the refunds as they are; a 200 appends exactly one refund
\* of the requested transaction, status 'processed'.
RefundRecorded(q) ==
  LET p == Refunded(q)
  IN /\ p.status # 200 => p.refunds = refunds
     /\ p.status = 200 =>
          /\ Len(p.refunds) = Len(refunds) + 1
          /\ SubSeq(p.refunds, 1, Len(refunds)) = refunds
          /\ p.refunds[Len(p.refunds)].originalTransactionId = q.transactionId
          /\ p.refunds[Len(p.refunds)].status = "processed"

Prefix(s, s2) == Len(s) <= Len(s2) /\ SubSeq(s2, 1, Len(s)) = s

\* ---- C29: the payment ledger is append-only: every step of the payment
\* service keeps the recorded transactions and refunds as they are; /pay
\* appends at most one transaction and leaves the refunds alone, /refund
\* appends at most one refund and leaves the transactions alone, and every
\* other endpoint leaves both collections unchanged.
C29_AppendOnly ==
  [][/\ Prefix(transactions, transactions') /\ Prefix(refunds, refunds')
     /\ Len(transactions') <= Len(transactions) + 1
     /\ Len(refunds') <= Len(refunds) + 1
     /\ direct'.op = "pay" => refunds' = refunds
     /\ direct'.op = "refund" => transactions' = transactions
     /\ direct'.op \notin {"pay", "refund"}
          => transactions' = transactions /\ refunds' = refunds]_vars

\* The ledger holds a transaction and two refunds, and a listing was answered
\* after them.
C29_Witness ==
  /\ Len(transactions) >= 1 /\ Len(refunds) >= 2
  /\ direct.op \in {"payments", "refunds", "status"} /\ direct.status = 200

\* ---- C28: GET /health of every service answers only 200 or 503, whatever
\* the local store and the dependencies do.
C28_HealthOnly200Or503 ==
  \A h \in HReqs : health[h].pc = "done" => health[h].resp \in {200, 503}

\* ---- C30: GET /ready answers 200 in every state of the store and of the
\* dependencies, issues no store query and no dependency call, and leaves
\* every request in flight and all stored data as they are.
C30_ReadyUnconditional ==
  /\ [](direct.op = "ready"
          => direct.status = 200 /\ direct.store = "" /\ direct.lookup = "")
  /\ [][direct'.op = "ready" /\ direct.op # "ready"
          => UNCHANGED <<orders, nextId, transactions, refunds, now, req,
                         health, analytics, users, ureq>>]_vars

\* /ready was answered 200 in a run in which the store failed the health
\* check of the same service.
C30_Witness ==
  /\ direct.op = "ready" /\ direct.status = 200
  /\ \E h \in HReqs :
       health[h].pc = "done" /\ health[h].dbFailed /\ health[h].resp = 500

\* A read-through request was answered after its call to the other service
\* had settled, and no store query of the handler failed.
ReadSettled ==
  /\ ureq.kind \in {"orders", "payments"} /\ ureq.pc = "done"
  /\ ureq.cause # Err(0, "") /\ ~ureq.dbFailed

\* ---- C24: for an existing user, GET /users/:id/orders and GET
\* /users/:id/payments answer 200 when the call to the other service succeeds,
\* 503 when the connection is refused or the name does not resolve, and 504
\* when the call times out; none of these outcomes is answered 500.
C24_ReadThroughTable ==
  ReadSettled =>
    /\ ureq.cause = Ok => ureq.resp = 200
    /\ ureq.cause \in ConnectErrs => ureq.resp = 503
    /\ ureq.cause \in Expired(ReadTimeoutMs) => ureq.resp = 504

\* A profile update was answered after the notification had settled.
Notified ==
  ureq.kind = "profile" /\ ureq.pc = "done" /\ ureq.cause # Err(0, "")

\* ---- C26: for an existing user, PUT /users/:id/profile applies the update
\* and answers 200 with the updated user for every outcome of the
\* notification of the order service; the step in which the notification
\* settles changes neither the stored user nor anything but the response.
C26_WebhookBestEffort ==
  /\ [](Notified =>
          /\ ureq.resp = 200
          /\ ureq.body = ureq.row /\ users[ureq.id] = ureq.row
          /\ ureq.changes # 0 => users[ureq.id] = ureq.changes)
  /\ [][ureq.pc = "webhook" /\ ureq'.pc # "webhook"
          => /\ users' = users
             /\ ureq'.pc = "done" /\ ureq'.resp = 200
             /\ ureq'.row = ureq.row]_vars

\* The notification of an applied update timed out or was refused, and the
\* update is stored and answered 200.
C26_Witness ==
  /\ Notified /\ ureq.rev = "pg" /\ ureq.changes = 2
  /\ ureq.cause \in TransportErrs(WebhookTimeoutMs)
  /\ ureq.resp = 200 /\ ureq.body = 2 /\ users[ureq.id] = 2

\* The step is the UPDATE of a pay request on order i.
PaysOrder(i) ==
  \E r \in Reqs :
    /\ req[r].kind = "pay" /\ req[r].pc = "update" /\ req[r].id = i
    /\ req'[r].pc = "done" /\ req'[r].resp = 200

\* The step is the INSERT of a create request that stores order i.
CreatesOrder(i) ==
  \E r \in Reqs :
    /\ req[r].kind = "create" /\ req[r].pc = "insert"
    /\ req'[r].pc = "done" /\ req'[r].resp = 201 /\ req'[r].id = i
    /\ orders'[i].user_data = req[r].user /\ orders'[i].product = req[r].product
    /\ orders'[i].amount = req[r].amount

\* ---- C25: an order's user snapshot is the user the lookup of its create
\* request returned, and no step (pay, list, a profile update, the delivery of
\* the user-updated webhook) changes the user snapshot, the product or the
\* amount of an existing order; a step that changes an existing order is the
\* UPDATE of a pay request and changes only its status, payment details and
\* paid timestamp.
C25_SnapshotFrozen ==
  [][\A i \in OrderIds :
       /\ (~Present(orders[i]) /\ Present(orders'[i])) => CreatesOrder(i)
       /\ (Present(orders[i]) /\ orders'[i] # orders[i]) =>
            /\ PaysOrder(i)
            /\ orders'[i] = [orders[i] EXCEPT
                               !.status = "paid",
                               !.payment_details = orders'[i].payment_details,
                               !.paid_at = orders'[i].paid_at]]_vars

\* A paid order still carries the name its user had at creation, after the
\* user was renamed and the order service was notified.
C25_Witness ==
  /\ \E i \in OrderIds :
       /\ orders[i].status = "paid"
       /\ orders[i].user_data = 1 /\ users[orders[i].user_id] = 2
  /\ ureq.kind = "profile" /\ ureq.pc = "done" /\ ureq.cause = Ok


\* ---- C31: no charge without a paid order: a step that answers a pay
\* request with an error records no transaction, and the request holds no
\* transaction of a charge it made (504 after the charge timeout and 500
\* after a failed UPDATE included).
C31_NoChargeOnError ==
  [][\A r \in Of("pay") :
       Answered(r) /\ req'[r].resp # 200
         => transactions' = transactions /\ req[r].payment = NoTxn]_vars


\* ---- C32: once a pay request and a cancel request on the same order have
\* both completed, a transaction recorded for the order while the order is
\* removed means that the cancel attempted a refund.
C32_NoOrphanCharge ==
  \A p \in Done("pay"), c \in Done("cancel") :
    /\ req[p].id = req[c].id /\ req[p].id \in OrderIds
    /\ orders[req[p].id].status = "cancelled"
    /\ \E k \in DOMAIN transactions : transactions[k].orderId = req[p].id
    => req[c].refundCalls > 0


\* ---- C33: in every GET /orders response `filtered` is at most `total`
\* and at most the limit, also when rows are inserted or deleted between the
\* row query and the count query.
C33_FilteredWithinTotal ==
  \A r \in Done("list") :
    req[r].resp = 200
      => req[r].filtered <= req[r].total /\ req[r].filtered <= req[r].limit


\* ---- C34: POST /orders answers 503 or 504 only when the user-service call
\* itself failed with connection refused, DNS failure or timeout; a failure
\* of the INSERT after a successful user lookup is answered 500.
C34_DependencyStatuses ==
  \A r \in Done("create") :
    /\ req[r].resp \in {503, 504}
         => req[r].cause.code \in {"ECONNREFUSED", "ENOTFOUND", "ECONNABORTED"}
    /\ req[r].dbFailed => req[r].cause = Ok /\ req[r].resp = 500


\* ---- C35: a service that registers gracefulShutdown for SIGTERM and
\* SIGINT and was sent one of them exits with code 0 only after the close
\* callback of its HTTP server has run and the pool was ended, and with code 1
\* only from the 10 s timer; no other handler ends the process.
WithGracefulShutdown ==
  {k \in ProcKinds :
     \A sig \in Signals :
       \E i \in DOMAIN Listeners(k, sig) : Listeners(k, sig)[i] = "gracefulShutdown"}

C35_OrderlyShutdown ==
  proc.kind \in WithGracefulShutdown /\ proc.phase = "exited" /\ proc.by # "initDB"
    => /\ proc.code = 0 => proc.closed /\ proc.poolEnded
       /\ proc.code # 0 => proc.code = 1 /\ proc.by = "timer"
       /\ proc.by \in {"close", "timer"}

\* ---- C36: the start-up store check terminates: initDB issues at most
\* Retries attempts, makes no further attempt once one succeeded, and when
\* the last attempt has failed it throws and the process exits with code 1;
\* every started initDB ends, or the process does.
InitSettled == proc.initPc \in {"connected", "failed"} \/ proc.phase = "exited"

====
